---- MODULE Spec2Model ----
(***************************************************************************)
(* TetrisForge (src/tetrisforge/tetris.py): the Board engine (piece/grid  *)
(* state machine, 7-bag, hold, line clearing, leveling), and the join     *)
(* code.  Every handler of Board is an operator from a working record w   *)
(* to a working record; the actions apply one whole handler per step.     *)
(*                                                                         *)
(* w.b    the Board instance's fields (plus the class attribute Speed)     *)
(* w.ret  the value the last try_move call returned                        *)
(* w.tm   the try_move calls the handler made, in order                    *)
(* w.rfl  the remove_full_lines calls the handler made, in order           *)
(*                                                                         *)
(* Shape objects are modelled by value.  This is sound here because the   *)
(* three slots current_piece / next_piece / hold_piece always hold three   *)
(* distinct objects: try_move stores either the object that is already    *)
(* current or a fresh result of rotate_right, and hold swaps two slots.    *)
(***************************************************************************)
EXTENDS Integers, Sequences, FiniteSets, TLC

\* ---------------------------------------------------------------- constants

board_width == 10
BoardHeight == 22
Speed == 300
FullRowCount == 10

NoShape == 0
ZShape == 1
SShape == 2
LineShape == 3
TShape == 4
SquareShape == 5
LShape == 6
MirroredLShape == 7

coordsTable ==
  << << <<0, 0>>,   <<0, 0>>,  <<0, 0>>,  <<0, 0>> >>,
     << <<0, -1>>,  <<0, 0>>,  <<-1, 0>>, <<-1, 1>> >>,
     << <<0, -1>>,  <<0, 0>>,  <<1, 0>>,  <<1, 1>> >>,
     << <<0, -1>>,  <<0, 0>>,  <<0, 1>>,  <<0, 2>> >>,
     << <<-1, 0>>,  <<0, 0>>,  <<1, 0>>,  <<0, 1>> >>,
     << <<0, 0>>,   <<1, 0>>,  <<0, 1>>,  <<1, 1>> >>,
     << <<-1, -1>>, <<0, -1>>, <<0, 0>>,  <<0, 1>> >>,
     << <<1, -1>>,  <<0, -1>>, <<0, 0>>,  <<0, 1>> >> >>

\* ---------------------------------------------------------------- Shape

\* Shape.set_shape: the offsets of the table, whatever the offsets were.
set_shape(shape) ==
  [piece_shape |-> shape, coords |-> coordsTable[shape + 1]]

Min2(a, b) == IF a < b THEN a ELSE b

min_y(p) ==
  Min2(Min2(p.coords[1][2], p.coords[2][2]), Min2(p.coords[3][2], p.coords[4][2]))

rotate_right(p) ==
  IF p.piece_shape = SquareShape
    THEN p
    ELSE [piece_shape |-> p.piece_shape,
          coords |-> [i \in 1..4 |-> <<0 - p.coords[i][2], p.coords[i][1]>>]]

\* ---------------------------------------------------------------- grid

clear_board == [i \in 1..(BoardHeight * board_width) |-> NoShape]

shape_at(board, x, y) == board[(y * board_width) + x + 1]

set_shape_at(board, x, y, shape) ==
  [board EXCEPT ![(y * board_width) + x + 1] = shape]

\* ---------------------------------------------------------------- bag

\* A draw that returns the last shape of the bag but takes the first one
\* out of it: C9 must tell it from the real one.
get_next_shape_keeps_drawn(bag, perm) ==
  LET full == IF Len(bag) = 0 THEN perm ELSE bag
  IN  [shape |-> full[Len(full)], bag |-> Tail(full)]

\* Board.get_next_shape.  perm is what random.shuffle leaves in the list
\* when the bag is refilled; it is not read otherwise.
get_next_shape(bag, perm) ==
  LET full == IF Len(bag) = 0 THEN perm ELSE bag
  IN  [shape |-> full[Len(full)], bag |-> SubSeq(full, 1, Len(full) - 1)]

\* ---------------------------------------------------------------- try_move

\* A try_move loop body that tests the bounds but not the grid: C1's
\* contract must tell it from the real one.
try_move_rejects_bounds_only(board, new_piece, new_x, new_y, i) ==
  LET x == new_x + new_piece.coords[i][1]
      y == new_y - new_piece.coords[i][2]
  IN  \/ x < 0
      \/ x >= board_width
      \/ y < 0
      \/ y >= BoardHeight

\* The body of try_move's loop for offset i: TRUE when it returns False.
try_move_rejects(board, new_piece, new_x, new_y, i) ==
  LET x == new_x + new_piece.coords[i][1]
      y == new_y - new_piece.coords[i][2]
  IN  \/ x < 0
      \/ x >= board_width
      \/ y < 0
      \/ y >= BoardHeight
      \/ shape_at(board, x, y) # NoShape

try_move(b, new_piece, new_x, new_y) ==
  IF \E i \in 1..4 : try_move_rejects(b.board, new_piece, new_x, new_y, i)
    THEN [ret |-> FALSE, b |-> b]
    ELSE [ret |-> TRUE,
          b |-> [b EXCEPT !.current_piece = new_piece,
                          !.cur_x = new_x,
                          !.cur_y = new_y]]

\* The 4 cells a piece covers at (px, py), as try_move and finalize_piece
\* compute them.
Cells(p, px, py) ==
  {<<px + p.coords[i][1], py - p.coords[i][2]>> : i \in 1..4}

InGrid(c) ==
  /\ 0 <= c[1] /\ c[1] < board_width
  /\ 0 <= c[2] /\ c[2] < BoardHeight

\* The (x, y) try_move passes to shape_at: the loop reaches offset i when no
\* earlier offset returned False, and calls shape_at after the bounds test.
try_move_reads(board, new_piece, new_x, new_y) ==
  {<<new_x + new_piece.coords[i][1], new_y - new_piece.coords[i][2]>> :
     i \in {k \in 1..4 :
              /\ InGrid(<<new_x + new_piece.coords[k][1],
                          new_y - new_piece.coords[k][2]>>)
              /\ \A j \in 1..(k - 1) :
                    ~try_move_rejects(board, new_piece, new_x, new_y, j)}}

\* One call of try_move, recorded: the arguments, the result r, the fields
\* it may write before and after, and what the grid held at the target cells.
record_try_move(w, new_piece, new_x, new_y, r) ==
  [w EXCEPT
     !.b = r.b,
     !.ret = r.ret,
     !.cells = @ \cup try_move_reads(w.b.board, new_piece, new_x, new_y),
     !.tm = Append(@,
       [piece |-> new_piece, new_x |-> new_x, new_y |-> new_y,
        ret |-> r.ret,
        pre |-> <<w.b.current_piece, w.b.cur_x, w.b.cur_y>>,
        post |-> <<r.b.current_piece, r.b.cur_x, r.b.cur_y>>,
        grid_same |-> (r.b.board = w.b.board),
        rest_same |-> ([r.b EXCEPT !.current_piece = w.b.current_piece,
                                   !.cur_x = w.b.cur_x,
                                   !.cur_y = w.b.cur_y] = w.b),
        blocked |-> \E c \in Cells(new_piece, new_x, new_y) :
                       \/ ~InGrid(c)
                       \/ w.b.board[(c[2] * board_width) + c[1] + 1]
                            # NoShape])]

call_try_move(w, new_piece, new_x, new_y) ==
  record_try_move(w, new_piece, new_x, new_y,
                  try_move(w.b, new_piece, new_x, new_y))

\* ---------------------------------------------------------------- speed

\* Board.Speed is 300 until the first level-up and a float after it.  The
\* model keeps it as a reduced fraction <<n, d>>: 300 * (3/4)^k is exact in
\* binary floating point for every k the bounds reach (75 * 3^k < 2^53).
RECURSIVE Gcd(_, _)
Gcd(a, b) == IF b = 0 THEN a ELSE Gcd(b, a % b)

\* Board.Speed -= Board.Speed / 4
speed_step(sp) ==
  LET n == (4 * sp[1]) - sp[1]
      d == 4 * sp[2]
      g == Gcd(n, d)
  IN  <<n \div g, d \div g>>

\* int(Board.Speed)
int_speed(sp) == <<sp[1] \div sp[2], 1>>

\* ---------------------------------------------------------------- spawn

\* What msg2Statusbar.emit last sent: "Game over", "Paused", or the line count.
Msg(text, n) == [text |-> text, n |-> n]

game_over(w) ==
  [w EXCEPT !.b.current_piece = set_shape(NoShape),
            !.b.timer.active = FALSE,
            !.b.is_started = FALSE,
            !.b.statusbar = Msg("Game over", 0),
            !.b.game_over_msgs = @ + 1]

\* A spawn that leaves the piece where it is when try_move refuses it: C12
\* must tell it from the real one.
spawn_unchecked(w) == w

\* "if not self.try_move(...)" at a spawn: w is the state after the call.
spawn_blocked(w) ==
  IF w.ret THEN w ELSE game_over(w)

\* The piece is put at (cur_x, cur_y), where it spawns, or the game ends.
place_at_spawn(w) ==
  spawn_blocked(call_try_move(w, w.b.current_piece, w.b.cur_x, w.b.cur_y))

\* new_piece once get_next_shape has returned g.
take_next(w, g) ==
  place_at_spawn(
    [w EXCEPT !.b.current_piece = set_shape(w.b.next_piece.piece_shape),
              !.b.next_piece = set_shape(g.shape),
              !.b.bag = g.bag,
              !.b.cur_x = (board_width \div 2) + 1,
              !.b.cur_y = (BoardHeight - 1)
                          + min_y(set_shape(w.b.next_piece.piece_shape))])

new_piece(w, perm) ==
  take_next(w, get_next_shape(w.b.bag, perm))

\* ---------------------------------------------------------------- line clear

is_full_row(board, i) ==
  Cardinality({j \in 0..(board_width - 1) : shape_at(board, j, i) # NoShape})
    = FullRowCount

RECURSIVE full_rows(_, _)
full_rows(board, i) ==
  IF i >= BoardHeight THEN <<>>
  ELSE (IF is_full_row(board, i) THEN <<i>> ELSE <<>>) \o full_rows(board, i + 1)

Reverse(s) == [i \in 1..Len(s) |-> s[(Len(s) + 1) - i]]

\* A row removal that shifts every row of the grid down, whatever m is:
\* C4's row-by-row statement must tell it from the real one.
remove_row_from_floor(board, m) ==
  [idx \in 1..(BoardHeight * board_width) |->
     LET k == (idx - 1) \div board_width
     IN  IF k < BoardHeight - 1 THEN board[idx + board_width]
         ELSE NoShape]

\* The two inner loops for one row m: rows m..BoardHeight-2 take the row
\* above (read before it is overwritten), the top row becomes NoShape.
remove_row(board, m) ==
  [idx \in 1..(BoardHeight * board_width) |->
     LET k == (idx - 1) \div board_width
     IN  IF k < m THEN board[idx]
         ELSE IF k < BoardHeight - 1 THEN board[idx + board_width]
         ELSE NoShape]

RECURSIVE remove_rows(_, _)
remove_rows(board, rows) ==
  IF Len(rows) = 0 THEN board
  ELSE remove_rows(remove_row(board, Head(rows)), Tail(rows))

\* A level-up that always adds 5 to the goal: C8's goal rule must tell it
\* from the real one.
level_up_by_five(b) ==
  LET sp == speed_step(b.Speed)
  IN  [b EXCEPT !.goal = 5 + b.goal,
                !.lines_to_goal = 0,
                !.num_goals_reached = @ + 1,
                !.Speed = sp,
                !.timer = [active |-> TRUE, interval |-> int_speed(sp)]]

level_up(b) ==
  LET sp == speed_step(b.Speed)
  IN  [b EXCEPT !.goal = IF b.num_goals_reached # 0
                           THEN (5 * b.num_goals_reached) + b.goal
                           ELSE 5 + b.goal,
                !.lines_to_goal = 0,
                !.num_goals_reached = @ + 1,
                !.Speed = sp,
                !.timer = [active |-> TRUE, interval |-> int_speed(sp)]]

\* A goal test that fires only past the goal ("> self.goal"): C31's bound
\* on lines_to_goal must tell it from the real one.
check_goal_past(b) ==
  IF b.lines_to_goal > b.goal THEN level_up(b) ELSE b

\* "if self.lines_to_goal >= self.goal".
check_goal(b) ==
  IF b.lines_to_goal >= b.goal THEN level_up(b) ELSE b

\* remove_full_lines after its loops: b is the Board with the rows removed.
count_lines(b, num_full_lines) ==
  IF num_full_lines > 0
    THEN check_goal([b EXCEPT
                       !.num_lines_removed = @ + num_full_lines,
                       !.statusbar = Msg("lines",
                                         b.num_lines_removed + num_full_lines),
                       !.is_waiting_after_line = TRUE,
                       !.current_piece = set_shape(NoShape),
                       !.lines_to_goal = @ + num_full_lines])
    ELSE b

\* The (x, y) the first loop of remove_full_lines passes to shape_at.
scan_cells ==
  {<<j, i>> : j \in 0..(board_width - 1), i \in 0..(BoardHeight - 1)}

\* Loops over k that run to the top row and read the row above it: C13
\* must tell them from the real ones.
shift_cells_past_top(m) ==
  {<<l, k>> : l \in 0..(board_width - 1), k \in m..BoardHeight}

\* The (x, y) the loops for one row m pass to shape_at and set_shape_at:
\* rows k and k + 1 for k in range(m, BoardHeight - 1), then the top row.
shift_cells(m) ==
  {<<l, k>> : l \in 0..(board_width - 1), k \in m..(BoardHeight - 2)}
    \cup {<<l, k + 1>> : l \in 0..(board_width - 1), k \in m..(BoardHeight - 2)}
    \cup {<<l, BoardHeight - 1>> : l \in 0..(board_width - 1)}

\* What a call of remove_full_lines leaves, recorded with the Board before
\* and the grid coordinates it used.
record_lines(w, rows_to_remove, after) ==
  [w EXCEPT !.b = after,
            !.rfl = Append(@, [before |-> w.b, after |-> after]),
            !.cells = @ \cup scan_cells
                        \cup UNION {shift_cells(rows_to_remove[i]) :
                                      i \in 1..Len(rows_to_remove)}]

remove_listed(w, rows_to_remove) ==
  record_lines(w, rows_to_remove,
               count_lines([w.b EXCEPT !.board = remove_rows(@, rows_to_remove)],
                           Len(rows_to_remove)))

\* A line clear without "rows_to_remove.reverse()": C30 must tell it from
\* the real one.
remove_full_lines_lowest_first(w) ==
  remove_listed(w, full_rows(w.b.board, 0))

remove_full_lines(w) ==
  remove_listed(w, Reverse(full_rows(w.b.board, 0)))

\* labels: the number shown after "Lines to goal: ".
labels_difference(b) == b.goal - b.lines_to_goal

\* ---------------------------------------------------------------- lock

RECURSIVE write_piece(_, _, _, _, _)
write_piece(board, p, px, py, i) ==
  IF i > 4 THEN board
  ELSE write_piece(set_shape_at(board, px + p.coords[i][1], py - p.coords[i][2],
                                p.piece_shape),
                   p, px, py, i + 1)

\* A lock that spawns the next piece at once even when rows were removed:
\* C21's sequencing must tell it from the real one.
after_lines_spawns_at_once(w, perm) ==
  [new_piece(w, perm) EXCEPT !.b.hold_locked = FALSE]

\* finalize_piece once remove_full_lines has returned.
after_lines(w, perm) ==
  IF ~w.b.is_waiting_after_line
    THEN [new_piece(w, perm) EXCEPT !.b.hold_locked = FALSE]
    ELSE w

finalize_piece(w, perm) ==
  after_lines(remove_full_lines(
                [w EXCEPT !.b.board = write_piece(@, w.b.current_piece,
                                                  w.b.cur_x, w.b.cur_y, 1),
                          !.b.is_landed = FALSE,
                          !.locks = @ + 1,
                          !.cells = @ \cup Cells(w.b.current_piece,
                                                 w.b.cur_x, w.b.cur_y)]),
              perm)

piece_dropped(w, perm) ==
  finalize_piece([w EXCEPT !.b.is_landed = TRUE], perm)

\* "if not self.try_move(...): self.piece_dropped()": w is the state after
\* the call.
dropped_if_blocked(w, perm) ==
  IF ~w.ret THEN piece_dropped(w, perm) ELSE w

\* A gravity step that locks the piece without trying to move it: C23 must
\* tell it from the real one.
one_line_down_locks(w, perm) ==
  piece_dropped(w, perm)

one_line_down(w, perm) ==
  dropped_if_blocked(
    call_try_move(w, w.b.current_piece, w.b.cur_x, w.b.cur_y - 1), perm)

move_down(w, perm) ==
  dropped_if_blocked(
    call_try_move(w, w.b.current_piece, w.b.cur_x, w.b.cur_y - 1), perm)

move_left(w) ==
  call_try_move(w, w.b.current_piece, w.b.cur_x - 1, w.b.cur_y)

move_right(w) ==
  call_try_move(w, w.b.current_piece, w.b.cur_x + 1, w.b.cur_y)

\* drop_down's while loop, entered with its local new_y; drop_next is the
\* loop body after its try_move call.
RECURSIVE drop_loop(_, _)
drop_next(w, new_y) ==
  IF ~w.ret THEN w ELSE drop_loop(w, new_y - 1)

drop_loop(w, new_y) ==
  IF new_y > 0
    THEN drop_next(call_try_move(w, w.b.current_piece, w.b.cur_x, new_y - 1),
                   new_y)
    ELSE w

\* A hard drop that locks the piece where it is: C22 must tell it from the
\* real one.
drop_down_in_place(w, perm) ==
  piece_dropped(w, perm)

drop_down(w, perm) ==
  piece_dropped(drop_loop(w, w.b.cur_y), perm)

\* ---------------------------------------------------------------- rotation

\* The attempts without the one at cur_x + 1: C7's order must tell it from
\* the real list.
kick_offsets_no_right == << <<0, 0>>, <<-1, 0>>, <<0, 1>>, <<0, -1>> >>

\* The positions try_rotate_right tries in turn, relative to the piece:
\* in place, cur_x - 1, cur_x + 1, cur_y + 1, cur_y - 1.
kick_offsets == << <<0, 0>>, <<-1, 0>>, <<1, 0>>, <<0, 1>>, <<0, -1>> >>

\* The nested "if not self.try_move(...)" of try_rotate_right from its k-th
\* attempt on: the first attempt that succeeds ends it.
RECURSIVE try_kicks(_, _, _)
next_kick(w, rotated, k) ==
  IF w.ret THEN w ELSE try_kicks(w, rotated, k + 1)

try_kicks(w, rotated, k) ==
  IF k > Len(kick_offsets) THEN w
  ELSE next_kick(call_try_move(w, rotated,
                               w.b.cur_x + kick_offsets[k][1],
                               w.b.cur_y + kick_offsets[k][2]),
                 rotated, k)

try_rotate_right(w) ==
  try_kicks(w, rotate_right(w.b.current_piece), 1)

\* ---------------------------------------------------------------- hold

\* "self.hold_locked = True", which ends every hold that acts.
lock_hold(w) ==
  [w EXCEPT !.b.hold_locked = TRUE, !.holds = @ + 1]

\* hold_current_piece past its hold_locked test.
hold_swap(w, perm) ==
  lock_hold(
    IF w.b.hold_piece.piece_shape = NoShape
      THEN new_piece([w EXCEPT !.b.hold_piece =
                        set_shape(w.b.current_piece.piece_shape)],
                     perm)
      ELSE place_at_spawn(
             [w EXCEPT !.b.current_piece = w.b.hold_piece,
                       !.b.hold_piece = w.b.current_piece,
                       !.b.cur_x = (board_width \div 2) + 1,
                       !.b.cur_y = (BoardHeight - 1) + min_y(w.b.hold_piece)]))

\* A hold that does not look at hold_locked: C5 must tell it from the real
\* one.
hold_current_piece_unlocked(w, perm) == hold_swap(w, perm)

hold_current_piece(w, perm) ==
  IF ~w.b.hold_locked THEN hold_swap(w, perm) ELSE w

\* ---------------------------------------------------------------- pause

pause(w) ==
  IF ~w.b.is_started THEN w
  ELSE IF ~w.b.is_paused
    THEN [w EXCEPT !.b.is_paused = TRUE,
                   !.b.timer.active = FALSE,
                   !.b.left_key_timer = FALSE,
                   !.b.right_key_timer = FALSE,
                   !.b.down_key_timer = FALSE,
                   !.b.statusbar = Msg("Paused", 0)]
    ELSE [w EXCEPT !.b.is_paused = FALSE,
                   !.b.timer = [active |-> TRUE, interval |-> w.b.Speed],
                   !.b.statusbar = Msg("lines", w.b.num_lines_removed)]

\* ---------------------------------------------------------------- events

Keys == {"Key_P", "Key_Left", "Key_Right", "Key_Down", "Key_Space",
         "Key_Up", "Key_C", "Key_Other"}

\* keyPressEvent without "if self.is_paused: return".
keyPressEvent_while_paused(w, key, perm) ==
  IF ~w.b.is_started \/ w.b.current_piece.piece_shape = NoShape THEN w
  ELSE IF key = "Key_P" THEN pause(w)
  ELSE IF key = "Key_Left"
    THEN [move_left(w) EXCEPT !.b.left_key_timer = TRUE]
  ELSE IF key = "Key_Right"
    THEN [move_right(w) EXCEPT !.b.right_key_timer = TRUE]
  ELSE IF key = "Key_Down"
    THEN [move_down(w, perm) EXCEPT !.b.down_key_timer = TRUE]
  ELSE IF key = "Key_Space" THEN drop_down(w, perm)
  ELSE IF key = "Key_Up" THEN try_rotate_right(w)
  ELSE IF key = "Key_C" THEN hold_current_piece(w, perm)
  ELSE w

keyPressEvent(w, key, perm) ==
  IF ~w.b.is_started \/ w.b.current_piece.piece_shape = NoShape THEN w
  ELSE IF key = "Key_P" THEN pause(w)
  ELSE IF w.b.is_paused THEN w
  ELSE IF key = "Key_Left"
    THEN [move_left(w) EXCEPT !.b.left_key_timer = TRUE]
  ELSE IF key = "Key_Right"
    THEN [move_right(w) EXCEPT !.b.right_key_timer = TRUE]
  ELSE IF key = "Key_Down"
    THEN [move_down(w, perm) EXCEPT !.b.down_key_timer = TRUE]
  ELSE IF key = "Key_Space" THEN drop_down(w, perm)
  ELSE IF key = "Key_Up" THEN try_rotate_right(w)
  ELSE IF key = "Key_C" THEN hold_current_piece(w, perm)
  ELSE w

keyReleaseEvent(w, key) ==
  IF key = "Key_Left" THEN [w EXCEPT !.b.left_key_timer = FALSE]
  ELSE IF key = "Key_Right" THEN [w EXCEPT !.b.right_key_timer = FALSE]
  ELSE IF key = "Key_Down" THEN [w EXCEPT !.b.down_key_timer = FALSE]
  ELSE w

\* timerEvent for the gravity timer (event.timerId() == self.timer.timerId()).
timerEvent(w, perm) ==
  IF w.b.is_waiting_after_line
    THEN new_piece([w EXCEPT !.b.is_waiting_after_line = FALSE], perm)
    ELSE one_line_down(w, perm)

\* ---------------------------------------------------------------- construction

\* Board.__init__ / init_board for a single-player Board; class_speed is the
\* value of the class attribute Board.Speed when the Board is constructed.
init_board(perm, class_speed) ==
  LET g == get_next_shape(<<>>, perm)
  IN  [board |-> clear_board,
       cur_x |-> 0,
       cur_y |-> 0,
       num_lines_removed |-> 0,
       is_waiting_after_line |-> FALSE,
       is_started |-> FALSE,
       is_paused |-> FALSE,
       bag |-> g.bag,
       next_piece |-> set_shape(g.shape),
       hold_piece |-> set_shape(NoShape),
       current_piece |-> set_shape(NoShape),
       hold_used |-> FALSE,
       hold_locked |-> FALSE,
       is_landed |-> FALSE,
       timer |-> [active |-> FALSE, interval |-> <<0, 1>>],
       left_key_timer |-> FALSE,
       right_key_timer |-> FALSE,
       down_key_timer |-> FALSE,
       goal |-> 10,
       num_goals_reached |-> 0,
       lines_to_goal |-> 0,
       statusbar |-> Msg("", 0),
       game_over_msgs |-> 0,
       Speed |-> class_speed]

\* A handler starts with empty call records.
Enter(b) ==
  [b |-> b, ret |-> FALSE, tm |-> <<>>, rfl |-> <<>>, locks |-> 0, holds |-> 0,
   cells |-> {}]

\* "self.timer.start(Board.Speed, self)".
start_timer(w) ==
  [w EXCEPT !.b.timer = [active |-> TRUE, interval |-> w.b.Speed]]

start(w, perm) ==
  IF w.b.is_paused THEN w
  ELSE start_timer(new_piece([w EXCEPT !.b.is_started = TRUE,
                                       !.b.is_waiting_after_line = FALSE,
                                       !.b.num_lines_removed = 0,
                                       !.b.board = clear_board,
                                       !.b.statusbar = Msg("lines", 0)],
                             perm))

\* ---------------------------------------------------------------- state

VARIABLES
  self,    \* the Board instance (and the class attribute Board.Speed)
  tm,      \* the try_move calls of the last handler
  rfl,     \* the remove_full_lines calls of the last handler
  ev,      \* the event the last handler served
  held,    \* a hold acted and finalize_piece has not run since
  steps,   \* events served since the initial state
  drawn,   \* the shapes drawn from the bag since its last refill
  jc,      \* the join code in hand: the input, the token, the decoded pair
  cells,   \* the grid coordinates the last handler read or wrote
  net      \* the multiplayer session: role, readers, tokens sent

vars == <<self, tm, rfl, ev, held, steps, drawn, jc, cells, net>>

Tick == [type |-> "tick", key |-> ""]
Press(k) == [type |-> "press", key |-> k]
Release(k) == [type |-> "release", key |-> k]
Repeat(k) == [type |-> "repeat", key |-> k]

RepeatKeys == {"Key_Left", "Key_Right", "Key_Down"}

\* The event loop delivers a timer event only while that timer is active.
Deliverable(b, e) ==
  CASE e.type = "tick" -> b.timer.active
    [] e.type = "repeat" ->
         (CASE e.key = "Key_Left" -> b.left_key_timer
            [] e.key = "Key_Right" -> b.right_key_timer
            [] OTHER -> b.down_key_timer)
    [] OTHER -> TRUE

Handle(w, e, perm) ==
  CASE e.type = "tick" -> timerEvent(w, perm)
    [] e.type = "press" -> keyPressEvent(w, e.key, perm)
    [] e.type = "release" -> keyReleaseEvent(w, e.key)
    [] OTHER ->
         (CASE e.key = "Key_Left" -> move_left(w)
            [] e.key = "Key_Right" -> move_right(w)
            [] OTHER -> move_down(w, perm))

\* What a handler leaves: its effect on the Board and what it recorded.
Result(w, e, was_held) ==
  [self |-> w.b, tm |-> w.tm, rfl |-> w.rfl, ev |-> e, cells |-> w.cells,
   held |-> IF w.holds > 0 THEN TRUE
            ELSE IF w.locks > 0 THEN FALSE
            ELSE was_held]

\* The state after one event.
After(st, e, perm) ==
  Result(Handle(Enter(st.self), e, perm), e, st.held)

\* Tetris.start_game for a solo game: Board(...) then Board.start().
Started(perm, class_speed) ==
  Result(start(Enter(init_board(perm, class_speed)), perm),
         [type |-> "start", key |-> ""], FALSE)

\* A play from a fresh session: the events in order, perms the successive
\* results of random.shuffle.  An event that cannot be delivered ends it.
RECURSIVE Play(_, _, _)
PlayOn(st, n, events, perms) ==
  Play(n, Tail(events),
       IF Len(st.self.bag) = 0 /\ Len(n.self.bag) > 0 THEN Tail(perms) ELSE perms)

Play(st, events, perms) ==
  IF Len(events) = 0 \/ ~Deliverable(st.self, Head(events)) THEN st
  ELSE PlayOn(st,
              After(st, Head(events), IF Len(perms) = 0 THEN <<>> ELSE Head(perms)),
              events, perms)

\* ---------------------------------------------------------------- bounds

MaxSteps == 4
NumShuffles == 2

\* The results of random.shuffle the exploration draws from: rotations of
\* 1..7 (any permutation is a possible result; the plays below fix theirs).
Shuffles ==
  {[i \in 1..7 |-> ((i + k) % 7) + 1] : k \in 0..(NumShuffles - 1)}

\* ---------------------------------------------------------------- plays

kUp == Press("Key_Up")
kSpace == Press("Key_Space")
kHold == Press("Key_C")
kLeft == Press("Key_Left")
kRight == Press("Key_Right")
rLeft == Release("Key_Left")
rRight == Release("Key_Right")

\* A T piece turned three times and walked to the left wall.
PlayWallT1 ==
  Play(Started(<<1, 2, 3, 5, 6, 7, 4>>, <<Speed, 1>>),
       <<kUp, kUp, kUp, kLeft, rLeft, kLeft, rLeft, kLeft, rLeft>>, <<>>)
PlayWallT ==
  Play(PlayWallT1, <<kLeft, rLeft, kLeft, rLeft, kLeft, rLeft>>, <<>>)

\* An upright I piece walked to the left wall.
PlayWallI1 ==
  Play(Started(<<1, 2, 4, 5, 6, 7, 3>>, <<Speed, 1>>),
       <<Tick, kLeft, rLeft, kLeft, rLeft, kLeft, rLeft>>, <<>>)
PlayWallI ==
  Play(PlayWallI1, <<kLeft, rLeft, kLeft, rLeft, kLeft, rLeft>>, <<>>)

\* I, Z and L laid flat on the floor: row 0 lacks only column 6, a T piece
\* is falling above it and a J piece is next.
PlayGap1 ==
  Play(Started(<<5, 2, 7, 4, 6, 1, 3>>, <<Speed, 1>>),
       <<kUp, kLeft, rLeft, kLeft, rLeft, kLeft, rLeft, kLeft, rLeft, kSpace>>,
       <<>>)
PlayGap2 ==
  Play(PlayGap1, <<kUp, kLeft, rLeft, kLeft, rLeft, kSpace>>, <<>>)
PlayGap ==
  Play(PlayGap2, <<kUp, kRight, rRight, kRight, rRight, kSpace>>, <<>>)

\* The I piece held, then seven pieces dropped where they spawn: the stack
\* reaches row 18 under a Z piece that has just spawned.
PlayTop ==
  Play(Started(<<5, 4, 6, 7, 2, 1, 3>>, <<Speed, 1>>),
       <<kHold, kSpace, kSpace, kSpace, kSpace, kSpace, kSpace, kSpace>>,
       << <<5, 4, 6, 7, 2, 1, 3>> >>)

\* Z, S, I and T dropped side by side: row 1 lacks only columns 8 and 9,
\* row 0 has gaps, the I piece stands above row 1, and an O piece is
\* falling over columns 8 and 9.
PlayShelf1 ==
  Play(Started(<<6, 7, 5, 4, 3, 2, 1>>, <<Speed, 1>>),
       <<kLeft, kLeft, kLeft, kLeft, kLeft, rLeft, kSpace,
         kLeft, kLeft, kLeft, kLeft, rLeft, kSpace>>, <<>>)
PlayShelf ==
  Play(PlayShelf1,
       <<kLeft, kLeft, rLeft, kSpace, kSpace, kRight, kRight, rRight>>, <<>>)

\* The T piece held, a mirrored L dropped, the L piece turned once and swapped
\* for the T piece: the hold slot has the turned L piece.
PlayHeld ==
  Play(Started(<<1, 2, 3, 5, 6, 7, 4>>, <<Speed, 1>>),
       <<kHold, kSpace, kUp, kHold>>, <<>>)

Plays ==
  {PlayWallT, PlayWallI, PlayGap, PlayShelf, PlayTop, PlayHeld}
    \cup {Started(perm, <<Speed, 1>>) : perm \in Shuffles}

\* ---------------------------------------------------------------- Spec

JcIdle == [phase |-> "idle"]

\* A solo session has no Lobby, no socket and no reader.
NetSolo == [role |-> "solo"]

Init ==
  /\ \E st \in Plays :
        /\ self = st.self
        /\ tm = st.tm
        /\ rfl = st.rfl
        /\ ev = st.ev
        /\ held = st.held
        /\ cells = st.cells
  /\ steps = 0
  /\ drawn = <<>>
  /\ jc = JcIdle
  /\ net = NetSolo

Becomes(n) ==
  /\ self' = n.self
  /\ tm' = n.tm
  /\ rfl' = n.rfl
  /\ ev' = n.ev
  /\ held' = n.held
  /\ cells' = n.cells

\* One event is delivered and its handler runs to completion.
Serve(e) ==
  /\ Deliverable(self, e)
  /\ \E perm \in (IF Len(self.bag) = 0 THEN Shuffles ELSE {<<>>}) :
        Becomes(After([self |-> self, held |-> held], e, perm))
  /\ steps' = steps + 1
  /\ UNCHANGED <<drawn, jc, net>>

\* The gravity timer fires.
GravityTick ==
  /\ steps < MaxSteps
  /\ Serve(Tick)

KeyPress ==
  /\ steps < MaxSteps
  /\ \E k \in Keys : Serve(Press(k))

KeyRelease ==
  /\ steps < MaxSteps
  /\ \E k \in RepeatKeys : Serve(Release(k))

\* A key-repeat timer fires: its timeout is connected to move_left,
\* move_right or move_down.
KeyRepeat ==
  /\ steps < MaxSteps
  /\ \E k \in RepeatKeys : Serve(Repeat(k))

Next == GravityTick \/ KeyPress \/ KeyRelease \/ KeyRepeat

Spec == Init /\ [][Next]_vars

\* ---------------------------------------------------------------- SpecLevel

\* The line clears of one session in sequence, the play between them left
\* out: remove_full_lines reads of the grid only which rows are full, and
\* of the rest of the Board only the counters it keeps itself.

MaxGoals == 4

\* A grid whose lowest n rows are full and whose other rows are empty.
lines_board(n) ==
  [i \in 1..(BoardHeight * board_width) |->
     IF (i - 1) \div board_width < n THEN LineShape ELSE NoShape]

InitLevel ==
  /\ self = Started(<<1, 2, 3, 4, 5, 6, 7>>, <<Speed, 1>>).self
  /\ tm = <<>>
  /\ rfl = <<>>
  /\ ev = [type |-> "start", key |-> ""]
  /\ held = FALSE
  /\ steps = 0
  /\ drawn = <<>>
  /\ jc = JcIdle
  /\ cells = {}
  /\ net = NetSolo

Cleared(w) ==
  /\ self' = w.b
  /\ rfl' = w.rfl
  /\ cells' = w.cells

\* A lock has completed n rows, n one of counts, and remove_full_lines runs.
ClearRows(counts) ==
  /\ self.num_goals_reached < MaxGoals
  /\ \E n \in counts :
        Cleared(remove_full_lines(Enter([self EXCEPT !.board = lines_board(n)])))
  /\ UNCHANGED <<tm, ev, held, steps, drawn, jc, net>>

ClearLines == ClearRows(1..4)

NextLevel == ClearLines

SpecLevel == InitLevel /\ [][NextLevel]_vars

\* ---------------------------------------------------------------- SpecClear

\* Locks that complete several rows at once: an upright I piece falls down
\* column 6 of a grid whose rows 0 to 3 are each complete but for column 6
\* or partly filled, under a fifth row that is empty or partly filled.

MaxClearSteps == 2

\* The rows the grids are made of, column 6 free in every one.
row_gap == [x \in 0..(board_width - 1) |-> IF x = 6 THEN NoShape ELSE ZShape]
row_left == [x \in 0..(board_width - 1) |-> IF x < 3 THEN TShape ELSE NoShape]
row_right == [x \in 0..(board_width - 1) |-> IF x > 6 THEN SShape ELSE NoShape]
row_empty == [x \in 0..(board_width - 1) |-> NoShape]

ClearRowKinds == {row_gap, row_left, row_right}

\* The grid whose rows from the floor up are rows[1], rows[2], ..., with
\* empty rows above.
grid_of(rows) ==
  [idx \in 1..(BoardHeight * board_width) |->
     IF (idx - 1) \div board_width < Len(rows)
       THEN rows[((idx - 1) \div board_width) + 1][(idx - 1) % board_width]
       ELSE NoShape]

ClearGrids ==
  {grid_of(<<r0, r1, r2, r3, r4>>) :
     r0 \in ClearRowKinds, r1 \in ClearRowKinds, r2 \in ClearRowKinds,
     r3 \in ClearRowKinds, r4 \in {row_empty, row_left}}

\* A session whose first piece is the I piece, over one of the grids.
InitClear ==
  /\ \E grid \in ClearGrids :
        \E st \in {Started(<<1, 2, 4, 5, 6, 7, 3>>, <<Speed, 1>>)} :
          /\ self = [st.self EXCEPT !.board = grid]
          /\ tm = st.tm
          /\ rfl = st.rfl
          /\ ev = st.ev
          /\ held = st.held
          /\ cells = st.cells
  /\ steps = 0
  /\ drawn = <<>>
  /\ jc = JcIdle
  /\ net = NetSolo

\* The piece is dropped, or the gravity timer fires.
ClearEvent ==
  /\ steps < MaxClearSteps
  /\ \E e \in {Press("Key_Space"), Tick} : Serve(e)

NextClear == ClearEvent

SpecClear == InitClear /\ [][NextClear]_vars

\* ---------------------------------------------------------------- SpecSession

\* Sessions of one process in sequence: Tetris.start_game builds a new Board
\* and starts it, while Board.Speed, an attribute of the class, is whatever
\* the line clears of the earlier Boards left.

MaxSessions == 3

NewSession ==
  /\ steps + 1 < MaxSessions
  /\ \E perm \in Shuffles : Becomes(Started(perm, self.Speed))
  /\ steps' = steps + 1
  /\ UNCHANGED <<drawn, jc, net>>

\* The line clears of a session, four rows at a time.
ClearMany == ClearRows({4})

NextSession == ClearMany \/ NewSession

SpecSession == InitLevel /\ [][NextSession]_vars

\* ---------------------------------------------------------------- SpecBag

\* The draws of one Board in sequence: the one of init_board, then one per
\* spawn (new_piece), with every result random.shuffle can leave.

MaxDraws == 14

BagShuffles == Permutations(1..7)

\* drawn counts, per shape, the draws since the last refill.
Counted(counts, shape) ==
  [s \in 1..7 |-> counts[s] + (IF s = shape THEN 1 ELSE 0)]

NoneDrawn == [s \in 1..7 |-> 0]

InitBag ==
  /\ \E perm \in BagShuffles :
        /\ self = init_board(perm, <<Speed, 1>>)
        /\ drawn = Counted(NoneDrawn, perm[7])
  /\ tm = <<>>
  /\ rfl = <<>>
  /\ ev = [type |-> "start", key |-> ""]
  /\ held = FALSE
  /\ steps = 1
  /\ jc = JcIdle
  /\ cells = {}
  /\ net = NetSolo

Drew(g, refilled) ==
  /\ self' = [self EXCEPT !.bag = g.bag, !.next_piece = set_shape(g.shape)]
  /\ drawn' = Counted(IF refilled THEN NoneDrawn ELSE drawn, g.shape)

\* self.next_piece.set_shape(self.get_next_shape()), as new_piece does it.
Draw ==
  /\ steps < MaxDraws
  /\ \E perm \in (IF Len(self.bag) = 0 THEN BagShuffles ELSE {<<>>}) :
        Drew(get_next_shape(self.bag, perm), Len(self.bag) = 0)
  /\ steps' = steps + 1
  /\ UNCHANGED <<tm, rfl, ev, held, jc, cells, net>>

NextBag == Draw

SpecBag == InitBag /\ [][NextBag]_vars

\* ---------------------------------------------------------------- join code

\* Text is a sequence of characters.
DigitChars == <<"0", "1", "2", "3", "4", "5", "6", "7", "8", "9">>

\* str(n) of an int n >= 0.
RECURSIVE str_int(_)
str_int(n) ==
  IF n < 10 THEN <<DigitChars[n + 1]>>
  ELSE Append(str_int(n \div 10), DigitChars[(n % 10) + 1])

digit_value(c) == (CHOOSE i \in 1..10 : DigitChars[i] = c) - 1

\* int(s) of a text of decimal digits.
RECURSIVE int_str(_)
int_str(s) ==
  IF Len(s) = 0 THEN 0
  ELSE (10 * int_str(SubSeq(s, 1, Len(s) - 1))) + digit_value(s[Len(s)])

\* s.split('.')
RECURSIVE split_dots(_)
split_dots(s) ==
  IF \A i \in 1..Len(s) : s[i] # "." THEN <<s>>
  ELSE LET d == CHOOSE i \in 1..Len(s) :
                  s[i] = "." /\ \A j \in 1..(i - 1) : s[j] # "."
       IN  <<SubSeq(s, 1, d - 1)>> \o split_dots(SubSeq(s, d + 1, Len(s)))

\* '.'.join(parts)
RECURSIVE join_dots(_)
join_dots(parts) ==
  IF Len(parts) = 0 THEN <<>>
  ELSE IF Len(parts) = 1 THEN parts[1]
  ELSE parts[1] \o <<".">> \o join_dots(Tail(parts))

\* struct.pack('!BBBB', ...) and struct.pack('!H', port) of values in range:
\* one byte per octet, the port high byte first.
pack_BBBB(o1, o2, o3, o4) == <<o1, o2, o3, o4>>

pack_H(port) == <<port \div 256, port % 256>>

\* An unpack of the port low byte first: C10 must tell it from the real one.
unpack_H_low_first(bytes) == (bytes[2] * 256) + bytes[1]

\* struct.unpack('!H', bytes)[0]
unpack_H(bytes) == (bytes[1] * 256) + bytes[2]

b64_alphabet ==
  <<
     "A", "B", "C", "D", "E", "F", "G", "H", "I", "J", "K", "L", "M",
     "N", "O", "P", "Q", "R", "S", "T", "U", "V", "W", "X", "Y", "Z",
     "a", "b", "c", "d", "e", "f", "g", "h", "i", "j", "k", "l", "m",
     "n", "o", "p", "q", "r", "s", "t", "u", "v", "w", "x", "y", "z",
     "0", "1", "2", "3", "4", "5", "6", "7", "8", "9", "+", "/" >>

b64_char(v) == b64_alphabet[v + 1]

b64_value(c) == (CHOOSE i \in 1..64 : b64_alphabet[i] = c) - 1

\* base64.b64encode: 3 bytes to 4 characters, the last group padded with "=".
RECURSIVE b64encode(_)
b64encode(bytes) ==
  IF Len(bytes) = 0 THEN <<>>
  ELSE IF Len(bytes) = 1
    THEN <<b64_char(bytes[1] \div 4), b64_char((bytes[1] % 4) * 16), "=", "=">>
  ELSE IF Len(bytes) = 2
    THEN <<b64_char(bytes[1] \div 4),
           b64_char(((bytes[1] % 4) * 16) + (bytes[2] \div 16)),
           b64_char((bytes[2] % 16) * 4), "=">>
  ELSE <<b64_char(bytes[1] \div 4),
         b64_char(((bytes[1] % 4) * 16) + (bytes[2] \div 16)),
         b64_char(((bytes[2] % 16) * 4) + (bytes[3] \div 64)),
         b64_char(bytes[3] % 64)>>
       \o b64encode(SubSeq(bytes, 4, Len(bytes)))

\* base64.b64decode of a text b64encode can produce.
RECURSIVE b64decode(_)
b64decode(chars) ==
  IF Len(chars) < 4 THEN <<>>
  ELSE IF chars[3] = "="
    THEN <<(b64_value(chars[1]) * 4) + (b64_value(chars[2]) \div 16)>>
  ELSE IF chars[4] = "="
    THEN <<(b64_value(chars[1]) * 4) + (b64_value(chars[2]) \div 16),
           ((b64_value(chars[2]) % 16) * 16) + (b64_value(chars[3]) \div 4)>>
  ELSE <<(b64_value(chars[1]) * 4) + (b64_value(chars[2]) \div 16),
         ((b64_value(chars[2]) % 16) * 16) + (b64_value(chars[3]) \div 4),
         ((b64_value(chars[3]) % 4) * 64) + b64_value(chars[4])>>
       \o b64decode(SubSeq(chars, 5, Len(chars)))

octets_to_bytes(octets) ==
  pack_BBBB(int_str(octets[1]), int_str(octets[2]),
            int_str(octets[3]), int_str(octets[4]))

ipv4_port_to_base64(ipv4, port) ==
  b64encode(octets_to_bytes(split_dots(ipv4)) \o pack_H(port))

bytes_to_ipv4_port(combined_bytes) ==
  <<join_dots([i \in 1..4 |-> str_int(combined_bytes[i])]),
    unpack_H(SubSeq(combined_bytes, 5, Len(combined_bytes)))>>

base64_to_ipv4_port(base64_encoded) ==
  bytes_to_ipv4_port(b64decode(base64_encoded))

\* ---------------------------------------------------------------- SpecJoin

\* Two (address, port) pairs are encoded, then the tokens are decoded.

OctetSamples == {0, 10, 255}

PortSamples == {0, 1, 255, 256, 7777, 65535}

AddressTexts ==
  {<<"0", ".", "0", ".", "0", ".", "0">>,
   <<"1", "2", "7", ".", "0", ".", "0", ".", "1">>,
   <<"1", "9", "2", ".", "1", "6", "8", ".", "1", ".", "1", "0">>,
   <<"1", "9", "2", ".", "1", "6", "8", ".", "1", ".", "1", "1">>,
   <<"1", "0", ".", "0", ".", "0", ".", "1">>,
   <<"1", ".", "0", ".", "0", ".", "1", "0">>,
   <<"8", ".", "8", ".", "4", ".", "4">>,
   <<"2", "5", "5", ".", "2", "5", "5", ".", "2", "5", "5", ".", "2", "5", "5">>}
    \cup {join_dots([i \in 1..4 |-> str_int(o[i])]) :
             o \in [1..4 -> OctetSamples]}

PartnerTexts ==
  {<<"1", "9", "2", ".", "1", "6", "8", ".", "1", ".", "1", "0">>,
   <<"1", "0", ".", "0", ".", "0", ".", "1">>,
   <<"2", "5", "5", ".", "2", "5", "5", ".", "2", "5", "5", ".", "2", "5", "5">>}

PartnerPorts == {256, 7777}

InitJoin ==
  /\ \E a \in AddressTexts, pa \in PortSamples,
        b \in PartnerTexts, pb \in PartnerPorts :
        jc = [phase |-> "input",
              a |-> <<a, pa>>, b |-> <<b, pb>>,
              token_a |-> <<>>, token_b |-> <<>>,
              out_a |-> <<>>, out_b |-> <<>>]
  /\ self = init_board(<<1, 2, 3, 4, 5, 6, 7>>, <<Speed, 1>>)
  /\ tm = <<>>
  /\ rfl = <<>>
  /\ ev = [type |-> "start", key |-> ""]
  /\ held = FALSE
  /\ steps = 0
  /\ drawn = <<>>
  /\ cells = {}
  /\ net = NetSolo

\* The host turns its address and port into the token.
Encode ==
  /\ jc.phase = "input"
  /\ jc' = [jc EXCEPT !.phase = "encoded",
                       !.token_a = ipv4_port_to_base64(jc.a[1], jc.a[2]),
                       !.token_b = ipv4_port_to_base64(jc.b[1], jc.b[2])]
  /\ UNCHANGED <<self, tm, rfl, ev, held, steps, drawn, cells, net>>

\* The joiner turns the token into an address and a port.
Decode ==
  /\ jc.phase = "encoded"
  /\ jc' = [jc EXCEPT !.phase = "decoded",
                       !.out_a = base64_to_ipv4_port(jc.token_a),
                       !.out_b = base64_to_ipv4_port(jc.token_b)]
  /\ UNCHANGED <<self, tm, rfl, ev, held, steps, drawn, cells, net>>

NextJoin == Encode \/ Decode

SpecJoin == InitJoin /\ [][NextJoin]_vars

\* ---------------------------------------------------------------- SpecCode

\* table_a2b_base64 of binascii: the 6-bit value of a character of the
\* alphabet, 64 for any other character.
b64_index(c) ==
  IF \E i \in 1..64 : b64_alphabet[i] = c THEN b64_value(c) ELSE 64

\* binascii.a2b_base64 as base64.b64decode calls it (strict_mode off), from
\* the characters left: quad_pos is the place in the group of 4, pads the "="
\* seen at quad_pos >= 2 since the last data character, leftchar the bits not
\* yet written, out the bytes written.  a2b_data is the "switch (quad_pos)".
RECURSIVE a2b_base64(_, _, _, _, _)
a2b_data(chars, quad_pos, leftchar, out, this_ch) ==
  CASE quad_pos = 0 -> a2b_base64(Tail(chars), 1, 0, this_ch, out)
    [] quad_pos = 1 ->
         a2b_base64(Tail(chars), 2, 0, this_ch % 16,
                    Append(out, (leftchar * 4) + (this_ch \div 16)))
    [] quad_pos = 2 ->
         a2b_base64(Tail(chars), 3, 0, this_ch % 4,
                    Append(out, (leftchar * 16) + (this_ch \div 4)))
    [] OTHER ->
         a2b_base64(Tail(chars), 0, 0, 0, Append(out, (leftchar * 64) + this_ch))

a2b_base64(chars, quad_pos, pads, leftchar, out) ==
  IF Len(chars) = 0
    THEN [raised |-> IF quad_pos # 0 THEN "binascii.Error" ELSE "",
          bytes |-> out]
  ELSE IF Head(chars) = "="
    THEN IF quad_pos >= 2 /\ quad_pos + pads + 1 >= 4
           THEN [raised |-> "", bytes |-> out]
           ELSE a2b_base64(Tail(chars), quad_pos,
                           IF quad_pos >= 2 THEN pads + 1 ELSE pads,
                           leftchar, out)
  ELSE IF b64_index(Head(chars)) >= 64
    THEN a2b_base64(Tail(chars), quad_pos, pads, leftchar, out)
  ELSE a2b_data(chars, quad_pos, leftchar, out, b64_index(Head(chars)))

\* base64_to_ipv4_port once b64decode has ended with d: struct.unpack raises
\* struct.error unless combined_bytes[:4] has 4 bytes and combined_bytes[4:]
\* has 2.  Nothing in the call chain catches either exception.
unpack_decoded(d) ==
  IF d.raised # "" THEN [raised |-> d.raised, value |-> <<>>]
  ELSE IF Len(d.bytes) # 6 THEN [raised |-> "struct.error", value |-> <<>>]
  ELSE [raised |-> "", value |-> bytes_to_ipv4_port(d.bytes)]

\* base64_to_ipv4_port of any ASCII text: what it raises, or what it returns.
base64_to_ipv4_port_outcome(base64_encoded) ==
  unpack_decoded(a2b_base64(base64_encoded, 0, 0, 0, <<>>))

\* The join codes a joiner may type: the codes of three hosts, as they are
\* and cut short, extended, with one character replaced, with one inserted.
CodeHosts ==
  {<<<<"1", "9", "2", ".", "1", "6", "8", ".", "1", ".", "1", "0">>, 7777>>,
   <<<<"1", "2", "7", ".", "0", ".", "0", ".", "1">>, 65535>>,
   <<<<"0", ".", "0", ".", "0", ".", "0">>, 0>>}

StrayChars == {"*", "=", " ", "A"}

TypedCodes(t) ==
  {t}
    \cup {SubSeq(t, 1, n) : n \in 0..(Len(t) - 1)}
    \cup {t \o SubSeq(t, 1, n) : n \in 1..4}
    \cup {[t EXCEPT ![i] = c] : i \in 1..Len(t), c \in StrayChars}
    \cup {SubSeq(t, 1, i) \o <<c>> \o SubSeq(t, i + 1, Len(t)) :
             i \in 0..Len(t), c \in StrayChars}

InitCode ==
  /\ \E h \in CodeHosts :
        \E t \in TypedCodes(ipv4_port_to_base64(h[1], h[2])) :
           jc = [phase |-> "typed", token |-> t]
  /\ self = init_board(<<1, 2, 3, 4, 5, 6, 7>>, <<Speed, 1>>)
  /\ tm = <<>>
  /\ rfl = <<>>
  /\ ev = [type |-> "start", key |-> ""]
  /\ held = FALSE
  /\ steps = 0
  /\ drawn = <<>>
  /\ cells = {}
  /\ net = NetSolo

\* Lobby.setup_client decodes the join code it was given.
DecodeTyped ==
  /\ jc.phase = "typed"
  /\ jc' = [phase |-> "tried", token |-> jc.token,
            result |-> base64_to_ipv4_port_outcome(jc.token)]
  /\ UNCHANGED <<self, tm, rfl, ev, held, steps, drawn, cells, net>>

NextCode == DecodeTyped

SpecCode == InitCode /\ [][NextCode]_vars

\* ---------------------------------------------------------------- tokens

\* The texts the protocol names, one character per element.
txt_start_game ==
  <<"s", "t", "a", "r", "t", "_", "g", "a", "m", "e">>

txt_game_over ==
  <<"g", "a", "m", "e", "_", "o", "v", "e", "r">>

txt_board_state ==
  <<"b", "o", "a", "r", "d", "_", "s", "t", "a", "t", "e">>

\* data.startswith(prefix)
startswith(data, prefix) ==
  /\ Len(data) >= Len(prefix)
  /\ SubSeq(data, 1, Len(prefix)) = prefix

\* s.split(sep) for a separator of one character: one field more than
\* there are separators, empty fields kept.  The two halves of s are split
\* and the field the cut went through is put together again.
RECURSIVE split(_, _)
split_joined(left, right) ==
  SubSeq(left, 1, Len(left) - 1)
    \o <<left[Len(left)] \o right[1]>>
    \o Tail(right)

split(s, sep) ==
  IF Len(s) = 0 THEN << <<>> >>
  ELSE IF Len(s) = 1 THEN (IF s[1] = sep THEN << <<>>, <<>> >> ELSE <<s>>)
  ELSE split_joined(split(SubSeq(s, 1, Len(s) \div 2), sep),
                    split(SubSeq(s, (Len(s) \div 2) + 1, Len(s)), sep))

\* Whether int(s) returns, for a text of letters and digits: it raises
\* ValueError unless s is one or more decimal digits.
int_accepts(s) ==
  /\ Len(s) > 0
  /\ \A i \in 1..Len(s) : \E d \in 1..10 : DigitChars[d] = s[i]

\* ---------------------------------------------------------------- readers

\* A reader thread runs network_loop on one socket.  pc is where it is:
\* "recv" in sock.recv, "got" with data in hand, "done" after the break,
\* "none" if the thread was never started.  eof: the peer has closed the
\* connection, so recv returns b"" at once.
Reader(pc) == [pc |-> pc, data |-> <<>>, eof |-> FALSE]

\* Tetris.show_game_over(message)
show_game_over(b, message) ==
  [b EXCEPT !.statusbar = Msg(message, 0),
            !.timer.active = FALSE,
            !.is_started = FALSE]

\* The "try" body of Board.network_loop once recv has returned data.
\* small is the Board's small_board attribute, set only by
\* server_thread_func: reading it on a Board that never accepted a
\* connection raises AttributeError.  raised: the "except" branch broke
\* out of the loop.
board_state_raised(b, small) == [raised |-> TRUE, b |-> b, small |-> small]

\* From "board_state = list(map(int, ...))" on: texts is
\* board_state.split(",").
board_state_cells(texts, b, small) ==
  IF (\E i \in 1..Len(texts) : ~int_accepts(texts[i])) \/ ~small.exists
    THEN board_state_raised(b, small)
    ELSE [raised |-> FALSE, b |-> b,
          small |-> [exists |-> TRUE,
                     board |-> [i \in 1..Len(texts) |-> int_str(texts[i])]]]

\* From "board_index, board_state = ..." on: fields is data.split(":")[1:].
board_state_fields(fields, b, small) ==
  IF Len(fields) # 2 \/ ~int_accepts(fields[1])
    THEN board_state_raised(b, small)
    ELSE board_state_cells(split(fields[2], ","), b, small)

Board_network_loop(data, b, small) ==
  IF Len(data) = 0 THEN [raised |-> FALSE, b |-> b, small |-> small]
  ELSE IF startswith(data, txt_board_state)
    THEN board_state_fields(Tail(split(data, ":")), b, small)
  ELSE IF data = txt_game_over
    THEN [raised |-> FALSE, b |-> show_game_over(b, "You Lost!"), small |-> small]
  ELSE [raised |-> FALSE, b |-> b, small |-> small]

\* Lobby.start_game on the host: one send per player, in order.
Lobby_start_game(players) == [i \in 1..players |-> txt_start_game]

\* ---------------------------------------------------------------- SpecNet

MaxTokens == 1
MaxNetSteps == 1

\* What a peer (or anything else that connects) may send.
Inbound ==
  {txt_start_game,
   txt_game_over,
   <<"h", "e", "l", "l", "o">>,
   txt_board_state \o <<":", "0", ":", "1", ",", "0", ",", "2">>,
   txt_board_state \o <<":", "0">>,
   txt_board_state \o <<":", "0", ":", "1", ",", "x">>}

\* Of these, the ones sent to the Lobby's socket.
InboundLobby == {txt_start_game, txt_game_over, <<"h", "e", "l", "l", "o">>}

\* The multiplayer sessions under way: the host has sent start_game to its
\* one player and runs Board.network_loop for a peer its Board accepted; the
\* joiner runs it on the socket its Board connected.  Both still run the
\* Lobby.network_loop thread started before the game.
NetHost ==
  [role |-> "host",
   sent |-> Lobby_start_game(1),
   lobby |-> Reader("recv"),
   board |-> Reader("recv"),
   small |-> [exists |-> TRUE, board |-> clear_board],
   received |-> 0]

NetJoiner ==
  [role |-> "joiner",
   sent |-> <<>>,
   lobby |-> Reader("recv"),
   board |-> Reader("recv"),
   small |-> [exists |-> FALSE, board |-> <<>>],
   received |-> 0]

NetPlays == {PlayTop, Started(<<1, 2, 3, 4, 5, 6, 7>>, <<Speed, 1>>)}

InitNet ==
  /\ \E st \in NetPlays :
        /\ self = st.self
        /\ tm = st.tm
        /\ rfl = st.rfl
        /\ ev = st.ev
        /\ held = st.held
        /\ cells = st.cells
  /\ steps = 0
  /\ drawn = <<>>
  /\ jc = JcIdle
  /\ net \in {NetHost, NetJoiner}

Readers == {"lobby", "board"}

\* sock.recv returns in reader r: a token arrives, or the peer closes the
\* connection (b"" now and at every later call), or the call raises and
\* the "except" branch breaks out of the loop.
ReaderRecv ==
  /\ \E r \in Readers :
        /\ net[r].pc = "recv"
        /\ \/ /\ ~net[r].eof
              /\ net.received < MaxTokens
              /\ \E data \in (IF r = "lobby" THEN InboundLobby ELSE Inbound) :
                    net' = [net EXCEPT ![r].pc = "got", ![r].data = data,
                                       !.received = @ + 1]
           \/ net' = [net EXCEPT ![r].pc = "got", ![r].data = <<>>,
                                 ![r].eof = TRUE]
           \/ /\ ~net[r].eof
              /\ net' = [net EXCEPT ![r].pc = "done", ![r].data = <<>>]
  /\ UNCHANGED <<self, tm, rfl, ev, held, steps, drawn, jc, cells>>

\* The rest of one turn of Board.network_loop, in the reader thread.
Looped(out) ==
  /\ self' = out.b
  /\ net' = [net EXCEPT !.board.pc = IF out.raised THEN "done" ELSE "recv",
                        !.board.data = <<>>,
                        !.small = out.small]

BoardReaderTurn ==
  /\ net.role # "solo"
  /\ net.board.pc = "got"
  /\ Looped(Board_network_loop(net.board.data, self, net.small))
  /\ UNCHANGED <<tm, rfl, ev, held, steps, drawn, jc, cells>>

\* The rest of one turn of Lobby.network_loop, in the reader thread:
\* start_game makes start_game_from_network(True, False) build and start a
\* new Board, which connects to the host and starts its own reader.
LobbyStarted(st) ==
  /\ Becomes(st)
  /\ net' = [net EXCEPT !.role = "joiner",
                        !.lobby.pc = "recv",
                        !.lobby.data = <<>>,
                        !.board = Reader("recv"),
                        !.small = [exists |-> FALSE, board |-> <<>>]]

LobbyReaderTurn ==
  /\ net.role # "solo"
  /\ net.lobby.pc = "got"
  /\ IF net.lobby.data = txt_start_game
       THEN \E perm \in Shuffles : LobbyStarted(Started(perm, self.Speed))
       ELSE /\ net' = [net EXCEPT !.lobby.pc = "recv", !.lobby.data = <<>>]
            /\ UNCHANGED <<self, tm, rfl, ev, held, cells>>
  /\ UNCHANGED <<steps, drawn, jc>>

\* The event loop of the GUI thread serves one timer or key event.
LocalEvent ==
  /\ net.role # "solo"
  /\ steps < MaxNetSteps
  /\ \E e \in {Tick} \cup {Press(k) : k \in Keys}
                \cup {Release(k) : k \in RepeatKeys}
                \cup {Repeat(k) : k \in RepeatKeys} : Serve(e)

NextNet == ReaderRecv \/ BoardReaderTurn \/ LobbyReaderTurn \/ LocalEvent

SpecNet == InitNet /\ [][NextNet]_vars

\* The reader threads are scheduled: a turn that can be taken is taken.
\* A reader with data in hand can always finish its turn, and the turn
\* changes its pc, so weak fairness of a turn is written with its enabling
\* condition spelled out: WF_vars(A) is []<>~ENABLED <<A>>_vars \/ []<><<A>>_vars.
BoardReaderScheduled ==
  \/ []<>(net.role = "solo" \/ net.board.pc # "got")
  \/ []<><<BoardReaderTurn>>_vars

LobbyReaderScheduled ==
  \/ []<>(net.role = "solo" \/ net.lobby.pc # "got")
  \/ []<><<LobbyReaderTurn>>_vars

SpecNetFair ==
  /\ SpecNet
  /\ WF_vars(ReaderRecv)
  /\ BoardReaderScheduled
  /\ LobbyReaderScheduled

\* ---------------------------------------------------------------- SpecPeers

\* The host's Board with several peers: Board.server_thread_func accepts
\* connections and starts one network_loop thread per connection, all of
\* them on the same Board.

MaxPeers == 3
MaxPeerTokens == 2

\* What the peer on connection c sends: its grid under its own index
\* (connection 1 is peer 0).
PeerTokens(c) ==
  {txt_board_state \o <<":", DigitChars[c], ":">> \o cs :
     cs \in {<<"1", ",", "0", ",", "2">>, <<"0", ",", "7">>}}

\* other_boards: the SmallBoard widgets in the order they were made, each
\* by its board list; small_board: which of them self.small_board refers
\* to, 0 while the attribute is not set; readers: one per connection.
NetPeers ==
  [role |-> "peers",
   other_boards |-> <<>>,
   small_board |-> 0,
   readers |-> <<>>,
   received |-> 0]

InitPeers ==
  /\ \E perm \in Shuffles : \E st \in {Started(perm, <<Speed, 1>>)} :
        /\ self = st.self
        /\ tm = st.tm
        /\ rfl = st.rfl
        /\ ev = st.ev
        /\ held = st.held
        /\ cells = st.cells
  /\ steps = 0
  /\ drawn = <<>>
  /\ jc = JcIdle
  /\ net = NetPeers

\* One turn of Board.server_thread_func: accept returns, a SmallBoard is
\* made and assigned to self.small_board, and a reader thread is started.
BoardAccept ==
  /\ net.role = "peers"
  /\ Len(net.readers) < MaxPeers
  /\ net' = [net EXCEPT !.other_boards = Append(@, clear_board),
                        !.small_board = Len(net.other_boards) + 1,
                        !.readers = Append(@, Reader("recv"))]
  /\ UNCHANGED <<self, tm, rfl, ev, held, steps, drawn, jc, cells>>

\* sock.recv returns a token in the reader of connection c.
PeerRecv ==
  /\ net.role = "peers"
  /\ net.received < MaxPeerTokens
  /\ \E c \in 1..Len(net.readers) :
        /\ net.readers[c].pc = "recv"
        /\ \E data \in PeerTokens(c) :
              net' = [net EXCEPT !.readers[c].pc = "got",
                                 !.readers[c].data = data,
                                 !.received = @ + 1]
  /\ UNCHANGED <<self, tm, rfl, ev, held, steps, drawn, jc, cells>>

\* self.small_board as the reader finds it.
small_board_now ==
  [exists |-> net.small_board > 0,
   board |-> IF net.small_board > 0 THEN net.other_boards[net.small_board]
             ELSE <<>>]

\* The rest of the turn of the reader of connection c: out is what
\* Board.network_loop did with the token.
PeerLooped(c, out) ==
  /\ self' = out.b
  /\ net' = [net EXCEPT
               !.readers[c].pc = IF out.raised THEN "done" ELSE "recv",
               !.readers[c].data = <<>>,
               !.other_boards =
                  IF net.small_board > 0
                    THEN [@ EXCEPT ![net.small_board] = out.small.board]
                    ELSE @]

PeerReaderTurn ==
  /\ net.role = "peers"
  /\ \E c \in 1..Len(net.readers) :
        /\ net.readers[c].pc = "got"
        /\ PeerLooped(c, Board_network_loop(net.readers[c].data, self,
                                            small_board_now))
  /\ UNCHANGED <<tm, rfl, ev, held, steps, drawn, jc, cells>>

NextPeers == BoardAccept \/ PeerRecv \/ PeerReaderTurn

SpecPeers == InitPeers /\ [][NextPeers]_vars

\* ---------------------------------------------------------------- SpecLobby

\* The host's Lobby: its accept loop registers players while the GUI thread
\* runs Lobby.start_game, one turn of the "for player in self.players" loop
\* at a time; each joiner's Lobby runs network_loop on its end of the
\* connection.

\* Before Tetris.start_game the window has no Board.
NoBoard == [is_started |-> FALSE]

\* A socket of self.players with the joiner behind it: sends is how many
\* times player.send was called, raised how many of the calls raised,
\* inbox the tokens sent and not yet received, sessions how many times
\* the joiner's start_game_from_network ran.
Player == [sends |-> 0, raised |-> 0, inbox |-> <<>>, sessions |-> 0]

\* pc: "lobby" before the Start button is clicked, "sending" inside the
\* loop of Lobby.start_game with i the index of the next player,
\* "starting" once the loop has found no further player, "game" once
\* self.game.start_game has returned.
NetLobby == [role |-> "lobby", pc |-> "lobby", i |-> 1, players |-> <<>>]

InitLobby ==
  /\ self = NoBoard
  /\ tm = <<>>
  /\ rfl = <<>>
  /\ ev = [type |-> "none", key |-> ""]
  /\ held = FALSE
  /\ cells = {}
  /\ steps = 0
  /\ drawn = <<>>
  /\ jc = JcIdle
  /\ net = NetLobby

\* One turn of Lobby.server_thread_func: accept returns and the socket is
\* appended to self.players.
LobbyAccept ==
  /\ net.role = "lobby"
  /\ Len(net.players) < MaxPeers
  /\ net' = [net EXCEPT !.players = Append(@, Player)]
  /\ UNCHANGED <<self, tm, rfl, ev, held, steps, drawn, jc, cells>>

\* The Start button is clicked: Lobby.start_game begins.
StartClicked ==
  /\ net.role = "lobby"
  /\ net.pc = "lobby"
  /\ net' = [net EXCEPT !.pc = "sending", !.i = 1]
  /\ UNCHANGED <<self, tm, rfl, ev, held, steps, drawn, jc, cells>>

\* A send whose exception leaves Lobby.start_game: C26 must tell it from
\* the real one.
send_raised_leaves(n) ==
  [n EXCEPT !.players[n.i].sends = @ + 1,
            !.players[n.i].raised = @ + 1,
            !.pc = "lobby"]

\* player.send raised: the "except" branch prints and the loop goes on.
send_raised(n) ==
  [n EXCEPT !.players[n.i].sends = @ + 1,
            !.players[n.i].raised = @ + 1,
            !.i = @ + 1]

\* player.send returned.
send_returned(n) ==
  [n EXCEPT !.players[n.i].sends = @ + 1,
            !.players[n.i].inbox = Append(@, txt_start_game),
            !.i = @ + 1]

\* One turn of the loop of Lobby.start_game.
SendStartGame ==
  /\ net.role = "lobby"
  /\ net.pc = "sending"
  /\ net.i <= Len(net.players)
  /\ net' \in {send_returned(net), send_raised(net)}
  /\ UNCHANGED <<self, tm, rfl, ev, held, steps, drawn, jc, cells>>

\* The loop finds self.players exhausted: a player appended later is not
\* visited.
SendsDone ==
  /\ net.role = "lobby"
  /\ net.pc = "sending"
  /\ net.i > Len(net.players)
  /\ net' = [net EXCEPT !.pc = "starting"]
  /\ UNCHANGED <<self, tm, rfl, ev, held, steps, drawn, jc, cells>>

\* self.game.start_game(multiplayer=True, is_host=True).
HostStarts ==
  /\ net.role = "lobby"
  /\ net.pc = "starting"
  /\ \E perm \in Shuffles : Becomes(Started(perm, <<Speed, 1>>))
  /\ net' = [net EXCEPT !.pc = "game"]
  /\ UNCHANGED <<steps, drawn, jc>>

\* Lobby.network_loop of a joiner for one token: start_game makes it call
\* start_game_from_network(True, False).
joiner_loop(p) ==
  [p EXCEPT !.inbox = Tail(@),
            !.sessions = IF Head(p.inbox) = txt_start_game THEN @ + 1 ELSE @]

JoinerReads ==
  /\ net.role = "lobby"
  /\ \E c \in 1..Len(net.players) :
        /\ Len(net.players[c].inbox) > 0
        /\ net' = [net EXCEPT !.players[c] = joiner_loop(@)]
  /\ UNCHANGED <<self, tm, rfl, ev, held, steps, drawn, jc, cells>>

NextLobby ==
  \/ LobbyAccept
  \/ StartClicked
  \/ SendStartGame
  \/ SendsDone
  \/ HostStarts
  \/ JoinerReads

SpecLobby == InitLobby /\ [][NextLobby]_vars

\* ---------------------------------------------------------------- SpecGravity

\* A solo session that receives no key event: the only events are the
\* timeouts of the gravity timer, delivered while the timer is active.

NumGravityShuffles == 7

\* The results of random.shuffle a session without input draws from: the
\* rotations of 1..7 and of 7..1.
GravityShuffles ==
  {[i \in 1..7 |-> ((i + k) % 7) + 1] : k \in 0..(NumGravityShuffles - 1)}
    \cup {[i \in 1..7 |-> 7 - ((i + k) % 7)] : k \in 0..(NumGravityShuffles - 1)}

InitGravity ==
  /\ \E st \in {Started(perm, <<Speed, 1>>) : perm \in GravityShuffles} :
        /\ self = st.self
        /\ tm = st.tm
        /\ rfl = st.rfl
        /\ ev = st.ev
        /\ held = st.held
        /\ cells = st.cells
  /\ steps = 0
  /\ drawn = <<>>
  /\ jc = JcIdle
  /\ net = NetSolo

\* The gravity timer fires and timerEvent runs to completion.
GravityOnly ==
  /\ Deliverable(self, Tick)
  /\ \E perm \in (IF Len(self.bag) = 0 THEN GravityShuffles ELSE {<<>>}) :
        Becomes(After([self |-> self, held |-> held], Tick, perm))
  /\ UNCHANGED <<steps, drawn, jc, net>>

NextGravity == GravityOnly

SpecGravity == InitGravity /\ [][NextGravity]_vars

\* An active QBasicTimer keeps firing: the timeout is not put off forever
\* while the timer stays active.
TimerFires ==
  \/ []<>(~self.timer.active)
  \/ []<><<GravityOnly>>_vars

SpecGravityFair == SpecGravity /\ TimerFires

\* ---------------------------------------------------------------- claims

\* Whether the session is over: game_over ran and left it not started.
GameOver(b) == ~b.is_started /\ b.game_over_msgs > 0

\* C1: every try_move call leaves the grid alone; when it returns False the
\* current piece and its position are what they were; when it returns True
\* the current piece is the piece given and the position is exactly
\* (new_x, new_y); and it returns False exactly when one of the 4 target
\* cells is outside the grid or not NoShape in it.
C1_TryMoveContract ==
  \A i \in 1..Len(tm) :
    /\ tm[i].grid_same
    /\ tm[i].rest_same
    /\ ~tm[i].ret => tm[i].post = tm[i].pre
    /\ tm[i].ret => tm[i].post = <<tm[i].piece, tm[i].new_x, tm[i].new_y>>
    /\ tm[i].ret = ~tm[i].blocked

\* One handler in which try_move refused a placement and then accepted
\* another that changed the piece or the position.
C1_Witness ==
  \E i, j \in 1..Len(tm) :
    /\ i < j
    /\ ~tm[i].ret
    /\ tm[j].ret
    /\ tm[j].post # tm[j].pre

\* C2: a session emits exactly one game-over notification, whatever events
\* follow the spawn that failed.
C2_OneGameOverNotification ==
  self.game_over_msgs <= 1

\* C3: once the session is over no event changes the grid, the current,
\* next or held piece, the position, hold_locked or a counter.
C3_Frozen ==
  /\ self'.board = self.board
  /\ self'.current_piece = self.current_piece
  /\ self'.next_piece = self.next_piece
  /\ self'.hold_piece = self.hold_piece
  /\ self'.cur_x = self.cur_x
  /\ self'.cur_y = self.cur_y
  /\ self'.hold_locked = self.hold_locked
  /\ self'.num_lines_removed = self.num_lines_removed
  /\ self'.lines_to_goal = self.lines_to_goal
  /\ self'.goal = self.goal
  /\ self'.num_goals_reached = self.num_goals_reached

C3_GameOverIsTerminal ==
  [][GameOver(self) => C3_Frozen]_vars

\* Row y of a grid, and the rows of a grid that hold no NoShape.
Row(board, y) == [x \in 0..(board_width - 1) |-> shape_at(board, x, y)]

EmptyRow == [x \in 0..(board_width - 1) |-> NoShape]

FullRowsOf(board) ==
  {y \in 0..(BoardHeight - 1) :
     \A x \in 0..(board_width - 1) : shape_at(board, x, y) # NoShape}

\* C4: when remove_full_lines finds exactly one full row R, afterwards every
\* row below R is as it was, every row from R up holds what the row above it
\* held, the top row is all NoShape, and num_lines_removed has grown by 1.
C4_SingleRowClear ==
  \A i \in 1..Len(rfl) :
    LET before == rfl[i].before
        after == rfl[i].after
        full == FullRowsOf(before.board)
    IN  Cardinality(full) = 1 =>
          LET R == CHOOSE y \in full : TRUE
          IN  /\ \A y \in 0..(R - 1) :
                    Row(after.board, y) = Row(before.board, y)
              /\ \A y \in R..(BoardHeight - 2) :
                    Row(after.board, y) = Row(before.board, y + 1)
              /\ Row(after.board, BoardHeight - 1) = EmptyRow
              /\ after.num_lines_removed = before.num_lines_removed + 1

\* A clear of the single full row 1, with cells in row 0 below it and
\* cells in row 2 above it.
C4_Witness ==
  \E i \in 1..Len(rfl) :
    /\ FullRowsOf(rfl[i].before.board) = {1}
    /\ Row(rfl[i].before.board, 0) # EmptyRow
    /\ Row(rfl[i].before.board, 2) # EmptyRow
    /\ Row(rfl[i].after.board, 1) = Row(rfl[i].before.board, 2)

\* C5: a Hold pressed while a Hold has acted and no piece has locked since
\* changes nothing: hold_locked is and stays TRUE, and the current, held and
\* next piece, the position and the grid are what they were.
C5_Unchanged ==
  /\ self.hold_locked
  /\ self'.hold_locked
  /\ self'.current_piece = self.current_piece
  /\ self'.hold_piece = self.hold_piece
  /\ self'.next_piece = self.next_piece
  /\ self'.cur_x = self.cur_x
  /\ self'.cur_y = self.cur_y
  /\ self'.board = self.board

C5_SecondHoldIsNoOp ==
  [][(held /\ ev' = Press("Key_C")) => C5_Unchanged]_vars

\* A Hold press served in play, after a Hold and before any lock, that
\* called try_move not once.
C5_Witness ==
  /\ ev = Press("Key_C")
  /\ held
  /\ self.is_started
  /\ ~self.is_paused
  /\ self.current_piece.piece_shape # NoShape
  /\ self.hold_piece.piece_shape # NoShape
  /\ Len(tm) = 0

\* C6: whenever a piece is in play and a piece has locked since the last
\* Hold, hold_locked is FALSE.
C6_HoldAvailableAfterLock ==
  (self.is_started /\ self.current_piece.piece_shape # NoShape /\ ~held)
    => ~self.hold_locked

\* The order of attempts C7 states, relative to the piece's position.
C7_Order == << <<0, 0>>, <<-1, 0>>, <<1, 0>>, <<0, 1>>, <<0, -1>> >>

C7_Turn(coords) == [i \in 1..4 |-> <<0 - coords[i][2], coords[i][1]>>]

\* Whether the offsets fit the grid of b at attempt k.
C7_Legal(b, coords, k) ==
  \A i \in 1..4 :
    LET c == <<(b.cur_x + C7_Order[k][1]) + coords[i][1],
               (b.cur_y + C7_Order[k][2]) - coords[i][2]>>
    IN  InGrid(c) /\ shape_at(b.board, c[1], c[2]) = NoShape

\* The Board fields a rotation with the given offsets must leave.
C7_Outcome(coords) ==
  LET legal == {k \in 1..5 : C7_Legal(self, coords, k)}
  IN  /\ self'.board = self.board
      /\ self'.current_piece.piece_shape = self.current_piece.piece_shape
      /\ IF legal = {}
            THEN /\ self'.current_piece = self.current_piece
                 /\ self'.cur_x = self.cur_x
                 /\ self'.cur_y = self.cur_y
            ELSE LET k == CHOOSE m \in legal : \A n \in legal : m <= n
                 IN  /\ self'.current_piece.coords = coords
                     /\ self'.cur_x = self.cur_x + C7_Order[k][1]
                     /\ self'.cur_y = self.cur_y + C7_Order[k][2]

\* A press of Up that reaches try_rotate_right.
C7_Rotates ==
  /\ ev' = Press("Key_Up")
  /\ self.is_started
  /\ ~self.is_paused
  /\ self.current_piece.piece_shape # NoShape

\* C7 as stated: every piece gets the offsets (x, y) -> (-y, x), placed at
\* the first legal of: same position, x-1, x+1, y+1, y-1; nothing changes
\* when none is legal.
C7_AsStated ==
  [][C7_Rotates => C7_Outcome(C7_Turn(self.current_piece.coords))]_vars

\* C7, amended: as stated for every piece but the square, whose offsets
\* try_rotate_right leaves as they are.
C7_RotationOrder ==
  [][C7_Rotates =>
       C7_Outcome(IF self.current_piece.piece_shape = SquareShape
                    THEN self.current_piece.coords
                    ELSE C7_Turn(self.current_piece.coords))]_vars

\* A rotation refused in place and at x-1 and committed at x+1.
C7_Witness ==
  /\ ev = Press("Key_Up")
  /\ Len(tm) = 3
  /\ ~tm[1].ret
  /\ ~tm[2].ret
  /\ tm[3].ret
  /\ tm[3].new_x = tm[1].new_x + 1
  /\ tm[3].new_y = tm[1].new_y
  /\ self.cur_x = tm[1].new_x + 1

\* What C8 states of one remove_full_lines call that cleared n > 0 rows,
\* but for the tick interval.
C8_Counters(before, after, n) ==
  IF before.lines_to_goal + n >= before.goal
    THEN /\ after.goal = before.goal + (IF before.num_goals_reached = 0
                                          THEN 5
                                          ELSE 5 * before.num_goals_reached)
         /\ after.lines_to_goal = 0
         /\ after.num_goals_reached = before.num_goals_reached + 1
         /\ 4 * after.Speed[1] * before.Speed[2]
              = 3 * before.Speed[1] * after.Speed[2]
         /\ after.timer.active
    ELSE /\ after.goal = before.goal
         /\ after.num_goals_reached = before.num_goals_reached
         /\ after.Speed = before.Speed
         /\ after.timer = before.timer
         /\ after.lines_to_goal = before.lines_to_goal + n

\* The goals C8 lists, by the number of goals reached.
C8_Goals == <<10, 15, 20, 30>>

C8_GoalSequence ==
  self.num_goals_reached < Len(C8_Goals)
    => self.goal = C8_Goals[self.num_goals_reached + 1]

\* C8 as stated: the goals are 10, 15, 20, 30; a clear that reaches the goal
\* adds 5 (or 5 * goals reached) to the goal, resets lines_to_goal, counts
\* the goal and makes the tick interval 75% of what it was; a clear that
\* does not reach it leaves goal, goals reached and speed alone.
C8_AsStated ==
  /\ C8_GoalSequence
  /\ \A i \in 1..Len(rfl) :
        LET before == rfl[i].before
            after == rfl[i].after
            n == Cardinality(FullRowsOf(before.board))
        IN  n > 0 =>
              /\ C8_Counters(before, after, n)
              /\ after.num_goals_reached # before.num_goals_reached =>
                    4 * after.timer.interval[1] * before.timer.interval[2]
                      = 3 * before.timer.interval[1] * after.timer.interval[2]

\* C8, amended: as stated, but it is Board.Speed that becomes 75% of what
\* it was, and the tick interval is the whole part of the new Board.Speed
\* (300, 225, 168, 126).
C8_Leveling ==
  /\ C8_GoalSequence
  /\ \A i \in 1..Len(rfl) :
        LET before == rfl[i].before
            after == rfl[i].after
            n == Cardinality(FullRowsOf(before.board))
        IN  n > 0 =>
              /\ C8_Counters(before, after, n)
              /\ after.num_goals_reached # before.num_goals_reached =>
                    /\ after.timer.interval[2] = 1
                    /\ after.timer.interval[1] * after.Speed[2] <= after.Speed[1]
                    /\ after.Speed[1]
                         < (after.timer.interval[1] + 1) * after.Speed[2]

\* The third goal reached: goal 20 becomes 30 and the interval 168 becomes
\* 126, the whole part of 126.5625.
C8_Witness ==
  \E i \in 1..Len(rfl) :
    /\ rfl[i].before.num_goals_reached = 2
    /\ rfl[i].after.num_goals_reached = 3
    /\ rfl[i].before.goal = 20
    /\ rfl[i].after.goal = 30
    /\ rfl[i].before.timer.interval = <<168, 1>>
    /\ rfl[i].after.timer.interval = <<126, 1>>

\* How often a shape occurs in the bag.
C9_InBag(shape) ==
  Cardinality({i \in 1..Len(self.bag) : self.bag[i] = shape})

\* Every entry of the bag is one of the 7 shapes, and each of the 7 shapes
\* is either in the bag once or drawn once since the last refill: the bag
\* holds distinct shapes, and the 7 draws that empty it are a permutation.
C9_Partition ==
  /\ \A i \in 1..Len(self.bag) : self.bag[i] \in 1..7
  /\ \A shape \in 1..7 : C9_InBag(shape) + drawn[shape] = 1

\* C9: the draws between two refills are a permutation of the 7 shapes,
\* the bag holds distinct shapes only, and the bag grows only when it was
\* empty.
C9_SevenBag ==
  /\ []C9_Partition
  /\ [][Len(self'.bag) >= Len(self.bag) => Len(self.bag) = 0]_vars

\* The second bag drawn empty: 14 draws, 7 since the refill.
C9_Witness ==
  /\ steps = 14
  /\ Len(self.bag) = 0
  /\ \A shape \in 1..7 : drawn[shape] = 1

\* C10: what is decoded from a pair's token is that pair, and two different
\* pairs have different tokens.
C10_RoundTrip ==
  /\ jc.phase = "decoded" => (jc.out_a = jc.a /\ jc.out_b = jc.b)
  /\ (jc.phase # "input" /\ jc.a # jc.b) => jc.token_a # jc.token_b

\* Two pairs decoded that differ in the port only, the port above 255.
C10_Witness ==
  /\ jc.phase = "decoded"
  /\ jc.a[1] = jc.b[1]
  /\ jc.a[2] = 65535
  /\ jc.b[2] = 256
  /\ jc.out_a = jc.a
  /\ Len(jc.token_a) = 8

\* A text that b64encode can produce: groups of 4 characters of the
\* alphabet, the last group ending in at most two "=".
C11_ValidText(t) ==
  /\ Len(t) % 4 = 0
  /\ \A i \in 1..Len(t) :
        \/ b64_index(t[i]) < 64
        \/ /\ t[i] = "="
           /\ i > Len(t) - 2
           /\ \A j \in (i + 1)..Len(t) : t[j] = "="

\* C11: decoding a join code raises, and returns no (address, port),
\* whenever the token is not valid text for the encoding or decodes to a
\* number of bytes other than 6.
C11_MalformedRejected ==
  jc.phase = "tried" =>
    ((\/ ~C11_ValidText(jc.token)
      \/ Len(a2b_base64(jc.token, 0, 0, 0, <<>>).bytes) # 6)
       => jc.result.raised # "")

\* C12: in every reachable state the grid has exactly width * height cells,
\* and whenever the current piece is not NoShape each of its 4 cells is
\* inside the grid and NoShape in the grid.
C12_PieceNotInGrid ==
  /\ Len(self.board) = board_width * BoardHeight
  /\ self.current_piece.piece_shape # NoShape =>
       \A c \in Cells(self.current_piece, self.cur_x, self.cur_y) :
          /\ InGrid(c)
          /\ shape_at(self.board, c[1], c[2]) = NoShape

\* A lock has just written a piece into the grid and the piece spawned after
\* it is falling one row above a landed cell.
C12_Witness ==
  /\ Len(rfl) > 0
  /\ self.current_piece.piece_shape # NoShape
  /\ \E c \in Cells(self.current_piece, self.cur_x, self.cur_y) :
        /\ c[2] > 0
        /\ shape_at(self.board, c[1], c[2] - 1) # NoShape

\* C13: whatever events are served, every grid read or write of a handler
\* (collision check, lock, line clear) uses coordinates with 0 <= x < width
\* and 0 <= y < height.
C13_GridAccessInRange ==
  \A c \in cells : InGrid(c)

\* A handler has checked collisions, locked the piece and removed a row.
C13_Witness ==
  /\ Len(tm) > 0
  /\ Len(rfl) > 0
  /\ rfl[1].after.num_lines_removed > rfl[1].before.num_lines_removed
  /\ \E c \in cells : c[2] = BoardHeight - 1
  /\ \E c \in cells : c[1] = 0 /\ c[2] = 0

\* The cells of a grid as text, a comma between two cells.
RECURSIVE C14_JoinCommas(_)
C14_JoinCommas(parts) ==
  IF Len(parts) = 0 THEN <<>>
  ELSE IF Len(parts) = 1 THEN parts[1]
  ELSE C14_JoinCommas(SubSeq(parts, 1, Len(parts) \div 2))
         \o <<",">>
         \o C14_JoinCommas(SubSeq(parts, (Len(parts) \div 2) + 1, Len(parts)))

\* The board_state token of a grid: "board_state:<index>:<c0,c1,...>"
\* with width * height cells.
C14_SnapshotText(board) ==
  txt_board_state \o <<":", "0", ":">>
    \o C14_JoinCommas([i \in 1..Len(board) |-> str_int(board[i])])

\* A step of a reader thread: one of the two readers has moved.
ReaderStep ==
  net.role # "solo" /\ (net'.lobby # net.lobby \/ net'.board # net.board)

\* A step of the GUI thread's event loop.
LocalStep == net.role # "solo" /\ steps' = steps + 1

\* How many of the tokens sent are t.
SentCount(sent, t) == Cardinality({i \in 1..Len(sent) : sent[i] = t})

\* C14: in a multiplayer session, a local step that changes the grid (lock,
\* line clear) or spawns a piece sends a board_state token with the whole
\* grid to the peers.
C14_SnapshotAfterMutation ==
  [][(LocalStep /\ (self'.board # self.board \/ self'.bag # self.bag))
       => \E i \in (Len(net.sent) + 1)..Len(net'.sent) :
             net'.sent[i] = C14_SnapshotText(self'.board)]_vars

\* C15: in a multiplayer session, a local step in which a spawn collision
\* ends the game sends game_over to the peers exactly once.
C15_GameOverSentOnce ==
  [][(LocalStep /\ self.is_started /\ self'.game_over_msgs > self.game_over_msgs)
       => SentCount(net'.sent, txt_game_over)
            = SentCount(net.sent, txt_game_over) + 1]_vars

\* C16: no step of a reader (a token received, game_over included, an
\* end of stream, a receive error) stops the local tick source or ends the
\* local session.
C16_NetworkNeverEndsSession ==
  [][ReaderStep => /\ self.timer.active => self'.timer.active
                   /\ self.is_started => self'.is_started]_vars

\* The tokens the protocol defines: start_game, game_over, and board_state
\* with a peer index and width * height cells.
C17_WellFormed(data) ==
  \/ data = txt_start_game
  \/ data = txt_game_over
  \/ /\ startswith(data, txt_board_state)
     /\ Len(split(data, ":")) = 3
     /\ int_accepts(split(data, ":")[2])
     /\ Len(split(split(data, ":")[3], ",")) = board_width * BoardHeight
     /\ \A i \in 1..(board_width * BoardHeight) :
           int_accepts(split(split(data, ":")[3], ",")[i])

\* C17: a reader that has received an unrecognized or malformed token
\* ignores it and goes on to its next recv.
C17_MalformedIgnored ==
  [][\A r \in Readers :
        (/\ net.role # "solo"
         /\ net[r].pc = "got"
         /\ net'[r] # net[r]
         /\ Len(net[r].data) > 0
         /\ ~C17_WellFormed(net[r].data))
          => net'[r].pc = "recv"]_vars

\* C18: no step of a reader changes the Board or the opponent view.
C18_ReaderMutatesNothing ==
  [][ReaderStep => self' = self /\ net'.small = net.small]_vars

\* C19: a reader whose connection was dropped ends its loop.
C19_DroppedReaderEnds ==
  /\ (net.role # "solo" /\ net.board.eof) ~> (net.board.pc = "done")
  /\ (net.role # "solo" /\ net.lobby.eof) ~> (net.lobby.pc = "done")

\* What TogglePause must leave alone: the grid, the current, next and held
\* piece, the position, hold_locked and the counters.
C20_GameState(b) ==
  <<b.board, b.current_piece, b.next_piece, b.hold_piece, b.cur_x, b.cur_y,
    b.hold_locked, b.num_lines_removed, b.goal, b.num_goals_reached,
    b.lines_to_goal, b.Speed>>

\* A key press has just been served.
C20_PressStep == steps' = steps + 1 /\ ev'.type = "press"

\* C20: a press of the pause key (pausing or resuming) leaves the grid, the
\* pieces, the position, hold_locked and the counters as they were, pausing
\* stops the gravity timer and the key-repeat timers and resuming starts the
\* gravity timer, and a press of any key while the game is paused leaves
\* them as they were too.
C20_PauseKeepsState ==
  [][C20_PressStep =>
       /\ (ev'.key = "Key_P" \/ self.is_paused)
            => C20_GameState(self') = C20_GameState(self)
       /\ (ev'.key = "Key_P" /\ self'.is_paused /\ ~self.is_paused)
            => /\ ~self'.timer.active
               /\ ~self'.left_key_timer
               /\ ~self'.right_key_timer
               /\ ~self'.down_key_timer
       /\ (ev'.key = "Key_P" /\ ~self'.is_paused /\ self.is_paused)
            => self'.timer.active]_vars

\* The game was paused and Key_Left has just been pressed; had the game not
\* been paused, that press would have moved the piece.
C20_Witness ==
  /\ self.is_started
  /\ self.is_paused
  /\ ev = Press("Key_Left")
  /\ ~self.timer.active
  /\ C20_GameState(After([self |-> [self EXCEPT !.is_paused = FALSE],
                          held |-> held], ev, <<>>).self)
       # C20_GameState(self)

\* One event has just been served.
Served == steps' = steps + 1

\* b holds the piece that was next in a, where new_piece puts it, or the
\* spawn was refused and the game is over.
SpawnedFrom(a, b) ==
  \/ /\ b.current_piece = set_shape(a.next_piece.piece_shape)
     /\ b.cur_x = (board_width \div 2) + 1
     /\ b.cur_y = (BoardHeight - 1) + min_y(b.current_piece)
     /\ b.is_started
  \/ GameOver(b) /\ b.current_piece.piece_shape = NoShape

\* C21: a step that locks a piece without completing a row spawns the next
\* piece (or ends the game) and leaves hold unlocked; a step that locks a
\* piece and removes rows leaves the current piece NoShape, the next piece
\* not yet taken and the Board waiting; while the Board waits no event but
\* the gravity tick spawns, and the gravity tick spawns the next piece at
\* the spawn position without moving it down or locking anything.
C21_LockSequencing ==
  [][Served =>
       /\ (/\ self.current_piece.piece_shape # NoShape
           /\ Len(rfl') = 1
           /\ rfl'[1].after.num_lines_removed = rfl'[1].before.num_lines_removed)
            => /\ SpawnedFrom(self, self')
               /\ ~self'.hold_locked
               /\ ~self'.is_waiting_after_line
       /\ (/\ self.current_piece.piece_shape # NoShape
           /\ Len(rfl') = 1
           /\ rfl'[1].after.num_lines_removed > rfl'[1].before.num_lines_removed)
            => /\ self'.current_piece.piece_shape = NoShape
               /\ self'.next_piece = self.next_piece
               /\ self'.is_waiting_after_line
               /\ self'.timer.active
       /\ (self.is_waiting_after_line /\ ev' # Tick)
            => /\ self'.current_piece.piece_shape = NoShape
               /\ self'.next_piece = self.next_piece
               /\ self'.is_waiting_after_line
       /\ (self.is_waiting_after_line /\ ev' = Tick)
            => /\ SpawnedFrom(self, self')
               /\ ~self'.is_waiting_after_line
               /\ self'.board = self.board
               /\ Len(rfl') = 0]_vars

\* A gravity tick has just spawned a piece after a line clear: its one
\* try_move call is the one of new_piece, at the place the piece is put.
C21_Witness ==
  /\ ev = Tick
  /\ self.num_lines_removed > 0
  /\ Len(rfl) = 0
  /\ Len(tm) = 1
  /\ tm[1].ret
  /\ tm[1].new_y = tm[1].pre[3]
  /\ self.cur_y = (BoardHeight - 1) + min_y(self.current_piece)

\* The piece in play is falling: the session runs, is not paused and is not
\* waiting after a line clear.
Falling(b) ==
  /\ b.is_started
  /\ ~b.is_paused
  /\ ~b.is_waiting_after_line
  /\ b.current_piece.piece_shape # NoShape

\* The current piece of b may stand at (b.cur_x, y): its 4 cells are in the
\* grid and NoShape.
LegalAt(b, y) ==
  \A c \in Cells(b.current_piece, b.cur_x, y) :
     InGrid(c) /\ shape_at(b.board, c[1], c[2]) = NoShape

\* The grid of b with the 4 cells of its current piece at (b.cur_x, y) set
\* to the piece's shape.
LockedAt(b, y) ==
  [idx \in 1..(BoardHeight * board_width) |->
     IF <<(idx - 1) % board_width, (idx - 1) \div board_width>>
          \in Cells(b.current_piece, b.cur_x, y)
       THEN b.current_piece.piece_shape
       ELSE b.board[idx]]

\* C22: a press of Space while a piece is falling locks that piece, with
\* the x and orientation it had, at the lowest y it reaches by legal moves
\* of one row down, where one more row down is not legal; the grid handed
\* to the line clear is the old grid with exactly the piece's 4 cells there.
C22_HardDrop ==
  [][(Served /\ ev' = Press("Key_Space") /\ Falling(self)) =>
       /\ Len(rfl') = 1
       /\ rfl'[1].before.current_piece = self.current_piece
       /\ rfl'[1].before.cur_x = self.cur_x
       /\ \E y \in 0..self.cur_y :
             /\ \A y2 \in y..self.cur_y : LegalAt(self, y2)
             /\ ~LegalAt(self, y - 1)
             /\ rfl'[1].before.cur_y = y
             /\ rfl'[1].before.board = LockedAt(self, y)]_vars

\* A hard drop has just moved a piece down several rows onto the stack.
C22_Witness ==
  /\ steps > 0
  /\ ev = Press("Key_Space")
  /\ Len(rfl) = 1
  /\ Len(tm) >= 4
  /\ tm[1].ret /\ tm[2].ret /\ tm[3].ret
  /\ rfl[1].before.current_piece.piece_shape # NoShape
  /\ \E c \in Cells(rfl[1].before.current_piece, rfl[1].before.cur_x,
                     rfl[1].before.cur_y) :
        /\ c[2] > 0
        /\ <<c[1], c[2] - 1>> \notin Cells(rfl[1].before.current_piece,
                                           rfl[1].before.cur_x,
                                           rfl[1].before.cur_y)
        /\ shape_at(rfl[1].before.board, c[1], c[2] - 1) # NoShape

\* The events that run one_line_down or move_down: the gravity tick, a
\* press of Down and a firing of the Down key-repeat timer.
C23_DownEvents == {Tick, Press("Key_Down"), Repeat("Key_Down")}

\* C23: a gravity tick or a soft-drop step served while a piece is falling
\* moves the piece down one row, with x, orientation and grid unchanged and
\* nothing locked, if that position is legal; if it is not, it locks the
\* piece where it stands.
C23_GravityStep ==
  [][(Served /\ ev' \in C23_DownEvents /\ Falling(self)) =>
       IF LegalAt(self, self.cur_y - 1)
         THEN /\ self'.current_piece = self.current_piece
              /\ self'.cur_x = self.cur_x
              /\ self'.cur_y = self.cur_y - 1
              /\ self'.board = self.board
              /\ Len(rfl') = 0
         ELSE /\ Len(rfl') = 1
              /\ rfl'[1].before.current_piece = self.current_piece
              /\ rfl'[1].before.cur_x = self.cur_x
              /\ rfl'[1].before.cur_y = self.cur_y
              /\ rfl'[1].before.board = LockedAt(self, self.cur_y)]_vars

\* A gravity tick has just locked a piece that could not move down.
C23_Witness ==
  /\ steps > 0
  /\ ev = Tick
  /\ Len(rfl) = 1
  /\ rfl[1].before.current_piece.piece_shape # NoShape
  /\ Len(tm) >= 1
  /\ ~tm[1].ret
  /\ tm[1].new_y = rfl[1].before.cur_y - 1

\* C24: a session that has just been constructed and started ticks at the
\* initial interval, 300 ms, whatever the earlier sessions did.
C24_NewSessionAtInitialSpeed ==
  [][(Served /\ ev'.type = "start")
       => /\ self'.timer.active
          /\ self'.timer.interval = <<Speed, 1>>
          /\ self'.Speed = <<Speed, 1>>]_vars

\* The peer index and the cells a well-formed board_state token carries.
C25_Index(data) == int_str(split(data, ":")[2])

C25_Cells(data) ==
  [i \in 1..Len(split(split(data, ":")[3], ",")) |->
     int_str(split(split(data, ":")[3], ",")[i])]

\* C25: when a reader has handled a board_state token with peer index i,
\* the view of peer i (the (i + 1)-th SmallBoard made) holds the token's
\* cells and every other view is as it was.
C25_OnlyViewOfPeer ==
  [][\A c \in 1..MaxPeers :
        (/\ net.role = "peers"
         /\ c <= Len(net.readers)
         /\ net.readers[c].pc = "got"
         /\ net'.readers[c].pc # "got"
         /\ startswith(net.readers[c].data, txt_board_state))
          => /\ Len(net'.other_boards) = Len(net.other_boards)
             /\ \A k \in 1..Len(net.other_boards) :
                   net'.other_boards[k] =
                     IF k = C25_Index(net.readers[c].data) + 1
                       THEN C25_Cells(net.readers[c].data)
                       ELSE net.other_boards[k]]_vars

\* C26: when the loop of Lobby.start_game ends, every player registered by
\* then has had start_game sent to it exactly once, whether or not a send
\* raised, and the host's session is started next; a send that raises
\* leaves the loop going on to the next player; no player is ever sent
\* start_game twice; and a joiner that reads start_game starts its session.
C26_StartGameToEveryPeer ==
  [][net.role = "lobby" =>
       /\ \A c \in 1..Len(net'.players) : net'.players[c].sends <= 1
       /\ (net.pc = "sending" /\ net'.pc # "sending")
            => /\ net'.pc = "starting"
               /\ \A c \in 1..Len(net.players) : net.players[c].sends = 1
       /\ (net.pc = "starting" /\ net'.pc # "starting")
            => net'.pc = "game" /\ self'.is_started
       /\ (net.pc = "sending" /\ net.i <= Len(net.players)
             /\ Len(net'.players) = Len(net.players)
             /\ net'.players[net.i].sends > net.players[net.i].sends)
            => /\ net'.pc = "sending"
               /\ net'.i = net.i + 1
               /\ \A c \in 1..Len(net.players) :
                     c # net.i => net'.players[c] = net.players[c]
               /\ net'.players[net.i].raised = net.players[net.i].raised
                    => net'.players[net.i].inbox
                         = Append(net.players[net.i].inbox, txt_start_game)
       /\ \A c \in 1..Len(net.players) :
             (/\ Len(net'.players) = Len(net.players)
              /\ Len(net.players[c].inbox) > 0
              /\ net'.players[c].inbox = Tail(net.players[c].inbox)
              /\ Head(net.players[c].inbox) = txt_start_game)
               => net'.players[c].sessions = net.players[c].sessions + 1]_vars

\* The host's session has started although the send to one player raised,
\* and a player after that one has received start_game and started its own
\* session.
C26_Witness ==
  /\ net.role = "lobby"
  /\ net.pc = "game"
  /\ self.is_started
  /\ \E c \in 1..Len(net.players) : \E d \in (c + 1)..Len(net.players) :
        /\ net.players[c].raised = 1
        /\ net.players[d].raised = 0
        /\ net.players[d].sessions = 1

\* C27: a press of the pause key in a running session that is not paused
\* pauses it, whatever the sub-phase, the wait after a line clear included.
C27_PauseInEveryPhase ==
  [][(Served /\ ev' = Press("Key_P") /\ self.is_started /\ ~self.is_paused)
       => self'.is_paused /\ ~self'.timer.active]_vars

\* C28: while the Board waits after a line clear, no key press, key release
\* or firing of a key-repeat timer changes a grid cell, and none of them
\* locks: finalize_piece does not run with a NoShape piece.
C28_WaitKeepsGrid ==
  [][(/\ Served
      /\ self.is_started
      /\ self.is_waiting_after_line
      /\ ev' # Tick)
       => /\ self'.board = self.board
          /\ Len(rfl') = 0]_vars

\* C29: a press of C that swaps the held piece in leaves that piece in play
\* with the offsets of its shape's table entry (unrotated) at the spawn
\* position.
C29_SwapInUnrotated ==
  [][(/\ Served
      /\ ev' = Press("Key_C")
      /\ Falling(self)
      /\ ~self.hold_locked
      /\ self.hold_piece.piece_shape # NoShape
      /\ self'.current_piece.piece_shape # NoShape)
       => /\ self'.current_piece = set_shape(self.hold_piece.piece_shape)
          /\ self'.cur_x = (board_width \div 2) + 1
          /\ self'.cur_y = (BoardHeight - 1)
                            + min_y(set_shape(self.hold_piece.piece_shape))]_vars

\* The rows of a grid that are not full.
C30_Kept(board) == (0..(BoardHeight - 1)) \ FullRowsOf(board)

\* C30: after every line clear of a lock, whatever the number of full rows,
\* no row is full, every row that was not full lies as many rows lower as
\* there were full rows below it (contents and order kept), the rows above
\* them are empty, and num_lines_removed has grown by the number of rows
\* that were full.
C30_ClearCompacts ==
  \A i \in 1..Len(rfl) :
     /\ FullRowsOf(rfl[i].after.board) = {}
     /\ \A k \in C30_Kept(rfl[i].before.board) :
           Row(rfl[i].after.board,
               Cardinality({j \in C30_Kept(rfl[i].before.board) : j < k}))
             = Row(rfl[i].before.board, k)
     /\ \A y \in Cardinality(C30_Kept(rfl[i].before.board))..(BoardHeight - 1) :
           Row(rfl[i].after.board, y) = EmptyRow
     /\ rfl[i].after.num_lines_removed
          = rfl[i].before.num_lines_removed
              + Cardinality(FullRowsOf(rfl[i].before.board))

\* A lock has completed two rows that had a row that was not full between
\* them and a row with cells above them.
C30_Witness ==
  /\ Len(rfl) = 1
  /\ Cardinality(FullRowsOf(rfl[1].before.board)) >= 2
  /\ \E a \in FullRowsOf(rfl[1].before.board) :
     \E c \in FullRowsOf(rfl[1].before.board) :
     \E b \in C30_Kept(rfl[1].before.board) :
     \E d \in C30_Kept(rfl[1].before.board) :
        /\ a < b /\ b < c /\ c < d
        /\ Row(rfl[1].before.board, b) # EmptyRow
        /\ Row(rfl[1].before.board, d) # EmptyRow

\* C31: in every state 0 <= lines_to_goal < goal and goal >= 10, so the
\* lines-to-goal number labels would show is at least 1; and one
\* remove_full_lines call, whatever it clears, counts at most one goal
\* reached and leaves the same bounds.
C31_GoalBounds ==
  /\ 0 <= self.lines_to_goal
  /\ self.lines_to_goal < self.goal
  /\ self.goal >= 10
  /\ labels_difference(self) >= 1
  /\ \A i \in 1..Len(rfl) :
        /\ rfl[i].after.num_goals_reached >= rfl[i].before.num_goals_reached
        /\ rfl[i].after.num_goals_reached <= rfl[i].before.num_goals_reached + 1
        /\ 0 <= rfl[i].after.lines_to_goal
        /\ rfl[i].after.lines_to_goal < rfl[i].after.goal
        /\ rfl[i].after.goal >= rfl[i].before.goal

\* A lock that cleared more rows than remained to the goal: one goal is
\* counted and the surplus is dropped.
C31_Witness ==
  \E i \in 1..Len(rfl) :
    /\ rfl[i].before.lines_to_goal + Cardinality(FullRowsOf(rfl[i].before.board))
         > rfl[i].before.goal
    /\ rfl[i].after.num_goals_reached = rfl[i].before.num_goals_reached + 1
    /\ rfl[i].after.lines_to_goal = 0
    /\ self = rfl[i].after

\* The pieces locked so far: each lock fills 4 cells, each removed row
\* empties board_width of them.
C32_Locked(b) ==
  (Cardinality({i \in DOMAIN b.board : b.board[i] # NoShape})
     + (board_width * b.num_lines_removed)) \div 4

\* What a tick does to a falling piece: it stands one row lower over the
\* same grid, or it was locked, written into the grid where it stood.
C32_FallsOrLocks ==
  Falling(self) =>
    \/ /\ self'.current_piece = self.current_piece
       /\ self'.cur_x = self.cur_x
       /\ self'.cur_y = self.cur_y - 1
       /\ self'.board = self.board
       /\ Falling(self')
    \/ /\ Len(rfl') = 1
       /\ rfl'[1].before.board = LockedAt(self, self.cur_y)
       /\ C32_Locked(self') = C32_Locked(self) + 1

\* C32: with gravity ticks only and a timer that keeps firing, every piece
\* that is falling is eventually locked (each step takes it one row down
\* or locks it, and no piece falls forever), and the session eventually is
\* over.
C32_GravityEndsSession ==
  /\ [][C32_FallsOrLocks]_vars
  /\ []<>(~Falling(self))
  /\ <>GameOver(self)

\* The session is over after ticks alone, with pieces locked on the way.
C32_Witness ==
  /\ GameOver(self)
  /\ ev = Tick
  /\ C32_Locked(self) > 4
  /\ ~self.timer.active

====
